---- MODULE Spec2Model ----
(***************************************************************************)
(* Long-term dialogue memory of Open-LLM-VTuber (RU adapt, RAG):           *)
(*   - DialogueMemory  (rag/dialogue_memory.py): the typed store over the  *)
(*     vector-store collection,                                            *)
(*   - ChromaRAG._chunk_text (rag/chroma_rag.py): the ingestion chunker,   *)
(*   - process_memory_background (rag/memory_processor.py): the            *)
(*     consolidation scheduler,                                            *)
(*   - process_single_conversation (conversations/single_conversation.py): *)
(*     the conversation turn that reads the memory and starts the          *)
(*     scheduler.                                                          *)
(* Text is a sequence of one-character strings, so that strip(), slicing   *)
(* and concatenation are computed and not assumed.                         *)
(***************************************************************************)
EXTENDS Integers, Sequences, FiniteSets, TLC

VARIABLES
    store,      \* the collection: a set of items [id, role, content, history_uid, conf_uid, timestamp]
    nextId,     \* number of ids generated so far (uuid4 is modelled as a fresh number)
    now,        \* datetime.utcnow() in whole seconds
    ticks,      \* how many times the clock has advanced
    last,       \* the last completed call on the store: its arguments and what it returned
    text,       \* _chunk_text: the trimmed text
    chunk_size, \* _chunk_text: argument
    chunk_overlap, \* _chunk_text: argument
    start,      \* _chunk_text: local start
    chunks,     \* _chunk_text: local chunks
    cpc,        \* _chunk_text: position ("idle", "call", "loop", "done")
    ingest,     \* add_documents_from_directory: the call in progress
    knowledge,  \* the knowledge collection: the documents add_documents stored, in order
    sched,      \* process_memory_background: one record per running call
    turn,       \* process_single_conversation: the turn in progress
    history,    \* the chat history of the thread: the messages store_message appended
    bg_tasks,   \* _bg_memory_task tasks created and not yet started, oldest first, each
                \* with the length the thread's history had when the task was created
    cleanup_tasks \* delete_older_than_days tasks created and not yet run

storeVars == <<store, nextId, now, ticks, last>>
chunkVars == <<text, chunk_size, chunk_overlap, start, chunks, cpc, ingest, knowledge>>
schedVars == <<sched>>
turnVars == <<turn, history, bg_tasks, cleanup_tasks>>
vars == <<store, nextId, now, ticks, last, text, chunk_size, chunk_overlap, start, chunks, cpc,
          ingest, knowledge, sched,
          turn, history, bg_tasks, cleanup_tasks>>

----------------------------------------------------------------------------
(* Bounds of the model *)

\* ids that may be generated in one behaviour (so the store never holds more than MaxAdds items)
MaxAdds == 2
\* clock advances in one behaviour
MaxTicks == 2
\* largest message_count given to process_memory_background
MaxCount == 20
\* longest text given to _chunk_text
MaxTextLen == 4
\* largest chunk_size and chunk_overlap given to _chunk_text
MaxChunkSize == 3
\* chunks after which a run of _chunk_text is no longer followed
MaxChunks == 6
\* conversation turns in one behaviour
MaxTurns == 2
\* files in the directory given to add_documents_from_directory
MaxFiles == 2

----------------------------------------------------------------------------
(* Text *)

Min(a, b) == IF a <= b THEN a ELSE b
Max(a, b) == IF a >= b THEN a ELSE b

\* characters str.strip() removes
Whitespace == {" ", "\n"}

RECURSIVE LStrip(_)
LStrip(s) == IF s # <<>> /\ Head(s) \in Whitespace THEN LStrip(Tail(s)) ELSE s

RECURSIVE RStrip(_)
RStrip(s) ==
    IF s # <<>> /\ s[Len(s)] \in Whitespace THEN RStrip(SubSeq(s, 1, Len(s) - 1)) ELSE s

\* str.strip()
Strip(s) == RStrip(LStrip(s))

\* a blank test that forgets strip(): `not content`
BlankNoStrip(s) == s = <<>>

\* `not content or not content.strip()`
Blank(s) == s = <<>> \/ Strip(s) = <<>>

\* Python's index normalisation in a slice s[a:b] for len(s) = n
SliceIndex(i, n) == IF i < 0 THEN Max(i + n, 0) ELSE Min(i, n)

\* Python's s[a:b]
PySlice(s, a, b) ==
    LET lo == SliceIndex(a, Len(s))
        hi == SliceIndex(b, Len(s))
    IN  IF lo < hi THEN SubSeq(s, lo + 1, hi) ELSE <<>>

----------------------------------------------------------------------------
(* DialogueMemory: constants and the adapter *)

ROLE_USER == "user"
ROLE_ASSISTANT == "assistant"
ROLE_FACT == "fact"
ROLE_SUMMARY == "summary"
ROLE_USER_PROFILE == "user_profile"

Roles == {ROLE_USER, ROLE_ASSISTANT, ROLE_FACT, ROLE_SUMMARY, ROLE_USER_PROFILE}

\* Roles that are never deleted by cleanup
PERSISTENT_ROLES == {ROLE_FACT, ROLE_USER_PROFILE}

\* timedelta(days=1) in seconds
SecondsPerDay == 86400

\* an absent optional argument of set type (None) or a given set
NoRoles == [given |-> FALSE, roles |-> {}]
GivenRoles(R) == [given |-> TRUE, roles |-> R]

\* collection.count()
Count == Cardinality(store)

\* collection.get(where=...): the matching items in an order the adapter chooses
Orderings(S) ==
    {f \in [1..Cardinality(S) -> S] : \A i, j \in 1..Cardinality(S) : i # j => f[i] # f[j]}

\* list.sort(key=timestamp, reverse=True): stable, so items of equal timestamp keep their order
RECURSIVE SortByTimestampDesc(_)
SortByTimestampDesc(seq) ==
    IF seq = <<>> THEN <<>>
    ELSE LET m == CHOOSE t \in {seq[i].timestamp : i \in 1..Len(seq)} :
                      \A i \in 1..Len(seq) : seq[i].timestamp <= t
             k == CHOOSE i \in 1..Len(seq) :
                      /\ seq[i].timestamp = m
                      /\ \A j \in 1..(i - 1) : seq[j].timestamp # m
             rest == [j \in 1..(Len(seq) - 1) |-> IF j < k THEN seq[j] ELSE seq[j + 1]]
         IN  <<seq[k]>> \o SortByTimestampDesc(rest)

----------------------------------------------------------------------------
(* DialogueMemory: operations *)

\* the item add_item stores (lines 102-114)
NewItem(role, content, history_uid, conf_uid) ==
    [id |-> nextId + 1, role |-> role, content |-> Strip(content),
     history_uid |-> history_uid, conf_uid |-> conf_uid, timestamp |-> now]

\* the empty id "" that add_item returns for blank content (ids are 1, 2, ...)
EmptyId == 0

\* an add_item that replaces the item of the same role and scope instead of appending
StoreAfterAddReplacing(role, content, history_uid, conf_uid) ==
    IF Blank(content) THEN store
    ELSE {it \in store : ~(/\ it.role = role /\ it.history_uid = history_uid
                            /\ it.conf_uid = conf_uid)}
         \cup {NewItem(role, content, history_uid, conf_uid)}

\* the collection after add_item (lines 100-114): unchanged for blank content
StoreAfterAdd(role, content, history_uid, conf_uid) ==
    IF Blank(content) THEN store
    ELSE store \cup {NewItem(role, content, history_uid, conf_uid)}

\* the id add_item returns (lines 101, 116)
AddItemResult(content) == IF Blank(content) THEN EmptyId ELSE nextId + 1

\* add_item(role, content, history_uid, conf_uid)
AddItem(role, content, history_uid, conf_uid) ==
    /\ nextId < MaxAdds
    /\ store' = StoreAfterAdd(role, content, history_uid, conf_uid)
    /\ nextId' = IF Blank(content) THEN nextId ELSE nextId + 1
    /\ last' = [op |-> "add_item", role |-> role, content |-> content,
                history_uid |-> history_uid, conf_uid |-> conf_uid,
                ret |-> AddItemResult(content),
                changed |-> StoreAfterAdd(role, content, history_uid, conf_uid) # store]
    /\ UNCHANGED <<now, ticks>>

\* cutoff = int((utcnow() - timedelta(days=days)).timestamp())
Cutoff(days) == now - days * SecondsPerDay

\* a cleanup that forgets the default: exclude = exclude_roles or set()
ExcludedRolesNoDefault(exclude_roles) == exclude_roles.roles

\* exclude = exclude_roles or PERSISTENT_ROLES: None and the empty set are both falsy
ExcludedRoles(exclude_roles) ==
    IF exclude_roles.given /\ exclude_roles.roles # {} THEN exclude_roles.roles
    ELSE PERSISTENT_ROLES

\* a cleanup whose collection.get is given limit=1: one matching item per call
OlderItemsOnePerCall(days, history_uid, exclude_roles) ==
    LET all == {it \in store :
                   /\ it.timestamp < Cutoff(days)
                   /\ (history_uid # "" => it.history_uid = history_uid)
                   /\ it.role \notin ExcludedRoles(exclude_roles)}
    IN  IF all = {} THEN {} ELSE {CHOOSE it \in all : \A o \in all : it.id <= o.id}

\* the items the where-filter of delete_older_than_days selects (lines 316-322)
OlderItems(days, history_uid, exclude_roles) ==
    {it \in store :
        /\ it.timestamp < Cutoff(days)
        /\ (history_uid # "" => it.history_uid = history_uid)
        /\ it.role \notin ExcludedRoles(exclude_roles)}

\* delete_older_than_days(days, history_uid, exclude_roles); history_uid "" stands for None.
\* repeat: the call before this one was the same call with the same cutoff;
\* prior_ret: what that call returned; changed: this call changed the collection.
DeleteOlderThanDays(days, history_uid, exclude_roles) ==
    LET ids == OlderItems(days, history_uid, exclude_roles)
        repeat == /\ last.op = "delete_older_than_days"
                  /\ last.days = days
                  /\ last.history_uid = history_uid
                  /\ last.exclude_roles = exclude_roles
                  /\ last.cutoff = Cutoff(days)
    IN  /\ store' = store \ ids
        /\ last' = [op |-> "delete_older_than_days", days |-> days,
                    history_uid |-> history_uid, exclude_roles |-> exclude_roles,
                    cutoff |-> Cutoff(days), ret |-> Cardinality(ids),
                    changed |-> (store \ ids) # store,
                    repeat |-> repeat,
                    prior_ret |-> IF repeat THEN last.ret ELSE 0]
        /\ UNCHANGED <<nextId, now, ticks>>

\* a where-filter that leaves the character out
ScopeItemsInAnyCharacter(S, role, history_uid, conf_uid) ==
    {it \in S : it.role = role /\ it.history_uid = history_uid}

\* the where-filter of get_user_profile and get_all_facts (lines 192-198, 271-277)
\* on a collection S
ScopeItemsIn(S, role, history_uid, conf_uid) ==
    {it \in S :
        /\ it.role = role
        /\ it.history_uid = history_uid
        /\ (conf_uid # "" => it.conf_uid = conf_uid)}

ScopeItems(role, history_uid, conf_uid) == ScopeItemsIn(store, role, history_uid, conf_uid)

\* the sorted list read from the wrong end: the oldest profile
LatestProfileOldest(got) ==
    IF got = <<>> THEN <<>>
    ELSE Strip(SortByTimestampDesc(got)[Len(got)].content)

\* get_user_profile, given the list collection.get returned (lines 283-294)
LatestProfile(got) ==
    IF got = <<>> THEN <<>> ELSE Strip(SortByTimestampDesc(got)[1].content)

\* get_user_profile(history_uid, conf_uid)
GetUserProfile(history_uid, conf_uid) ==
    /\ \E got \in Orderings(ScopeItems(ROLE_USER_PROFILE, history_uid, conf_uid)) :
          last' = [op |-> "get_user_profile", history_uid |-> history_uid,
                   conf_uid |-> conf_uid, ret |-> LatestProfile(got),
                   items |-> PySlice(SortByTimestampDesc(got), 0, 1)]
    /\ UNCHANGED <<store, nextId, now, ticks>>

\* set_user_profile(history_uid, conf_uid, content): returns None
SetUserProfile(history_uid, conf_uid, content) ==
    /\ nextId < MaxAdds
    /\ IF Blank(content)
       THEN UNCHANGED <<store, nextId>>
       ELSE /\ store' = StoreAfterAdd(ROLE_USER_PROFILE, Strip(content), history_uid, conf_uid)
            /\ nextId' = nextId + 1
    /\ last' = [op |-> "set_user_profile", history_uid |-> history_uid,
                conf_uid |-> conf_uid, content |-> content, ret |-> "None",
                changed |-> store' # store]
    /\ UNCHANGED <<now, ticks>>

\* f"{current}\n- {new_fact.strip()}" or f"- {new_fact.strip()}" (lines 249-252)
MergedProfile(current, new_fact) ==
    IF current # <<>> THEN current \o <<"\n", "-", " ">> \o Strip(new_fact)
    ELSE <<"-", " ">> \o Strip(new_fact)

\* add_to_user_profile(history_uid, conf_uid, new_fact): returns None
AddToUserProfile(history_uid, conf_uid, new_fact) ==
    /\ nextId < MaxAdds
    /\ IF Blank(new_fact)
       THEN UNCHANGED <<store, nextId>>
       ELSE \E got \in Orderings(ScopeItems(ROLE_USER_PROFILE, history_uid, conf_uid)) :
               /\ store' = StoreAfterAdd(ROLE_USER_PROFILE,
                                         MergedProfile(LatestProfile(got), new_fact),
                                         history_uid, conf_uid)
               /\ nextId' = nextId + 1
    /\ last' = [op |-> "add_to_user_profile", history_uid |-> history_uid,
                conf_uid |-> conf_uid, content |-> new_fact, ret |-> "None",
                changed |-> store' # store]
    /\ UNCHANGED <<now, ticks>>

\* get_all_facts, given the list collection.get returned: the items whose contents
\* are returned, in order (lines 204-211)
FactsNewestFirst(got, limit) ==
    SelectSeq(PySlice(SortByTimestampDesc(got), 0, limit),
              LAMBDA it : Strip(it.content) # <<>>)

\* get_all_facts(history_uid, conf_uid, limit); ret is the list of contents
GetAllFacts(history_uid, conf_uid, limit) ==
    /\ \E got \in Orderings(ScopeItems(ROLE_FACT, history_uid, conf_uid)) :
          LET out == FactsNewestFirst(got, limit)
          IN  last' = [op |-> "get_all_facts", history_uid |-> history_uid,
                       conf_uid |-> conf_uid, limit |-> limit,
                       ret |-> [i \in 1..Len(out) |-> Strip(out[i].content)],
                       items |-> out]
    /\ UNCHANGED <<store, nextId, now, ticks>>

\* count()
CountItems ==
    /\ last' = [op |-> "count", ret |-> Count]
    /\ UNCHANGED <<store, nextId, now, ticks>>

\* a where-filter without the role part
QueryItemsAnyRole(history_uid, conf_uid, roles) ==
    {it \in store :
        /\ (history_uid # "" => it.history_uid = history_uid)
        /\ (conf_uid # "" => it.conf_uid = conf_uid)}

\* the where-filter DialogueMemory.query builds (lines 143-155); "" and an absent or
\* empty roles list constrain nothing
QueryItems(history_uid, conf_uid, roles) ==
    {it \in store :
        /\ (history_uid # "" => it.history_uid = history_uid)
        /\ (conf_uid # "" => it.conf_uid = conf_uid)
        /\ ((roles.given /\ roles.roles # {}) => it.role \in roles.roles)}

\* query(query_text, n_results, history_uid, conf_uid, roles). query_text only decides
\* the adapter's ranking of the matching items by similarity (ranked), which is any
\* order here. The adapter is called with
\* n_results = min(n_results, count) whenever the store is not empty; what it does for
\* a number <= 0 is the adapter's business: it raises or it returns nothing.
Query(n_results, history_uid, conf_uid, roles) ==
    /\ LET call == [op |-> "query", history_uid |-> history_uid, conf_uid |-> conf_uid,
                    roles |-> roles, n_results |-> n_results, ranked |-> <<>>, ret |-> <<>>,
                    adapter_called |-> FALSE, adapter_n |-> 0, raised |-> FALSE]
       IN  IF Count = 0
           THEN last' = call
           ELSE LET k == Min(n_results, Count)
                    match == QueryItems(history_uid, conf_uid, roles)
                IN  IF k <= 0
                    THEN \E r \in BOOLEAN :
                            last' = [call EXCEPT !.adapter_called = TRUE, !.adapter_n = k,
                                                 !.raised = r]
                    ELSE \E ranked \in Orderings(match) :
                            last' = [call EXCEPT !.adapter_called = TRUE, !.adapter_n = k,
                                                 !.ranked = ranked,
                                                 !.ret = PySlice(ranked, 0, k)]
    /\ UNCHANGED <<store, nextId, now, ticks>>

\* the where-filter of list_items (lines 357-364): conf_uid always, even when it is
\* "", history_uid and role when they are given and not empty
ListedItems(conf_uid, history_uid, role) ==
    {it \in store :
        /\ it.conf_uid = conf_uid
        /\ (history_uid # "" => it.history_uid = history_uid)
        /\ (role # "" => it.role = role)}

\* lines 375-387: the dict list_items builds for an item
ListedDict(it) ==
    [id |-> it.id, content |-> Strip(it.content), role |-> it.role,
     timestamp |-> it.timestamp]

\* list_items(conf_uid, history_uid, role, limit): collection.get(limit=limit) gives
\* the first limit matches in the adapter's order, which are then sorted newest first
ListItems(conf_uid, history_uid, role, limit) ==
    /\ \E got \in Orderings(ListedItems(conf_uid, history_uid, role)) :
          LET out == PySlice(SortByTimestampDesc(PySlice(got, 0, limit)), 0, limit)
          IN  last' = [op |-> "list_items", conf_uid |-> conf_uid,
                       history_uid |-> history_uid, role |-> role, limit |-> limit,
                       ret |-> [i \in 1..Len(out) |-> ListedDict(out[i])]]
    /\ UNCHANGED <<store, nextId, now, ticks>>

\* lines 401-403: valid = [i for i in ids if i]
ValidIds(ids) == SelectSeq(ids, LAMBDA i : i # EmptyId)

\* lines 399-406: what delete_by_ids returns: 0 for no ids, else len(valid)
DeleteByIdsResult(ids) == Len(ValidIds(ids))

\* delete_by_ids(ids): collection.delete(ids=valid) removes the items stored under
\* those ids and ignores the ids that are not stored
DeleteByIds(ids) ==
    /\ store' = {it \in store : \A k \in 1..Len(ValidIds(ids)) : it.id # ValidIds(ids)[k]}
    /\ last' = [op |-> "delete_by_ids", ids |-> ids, ret |-> DeleteByIdsResult(ids)]
    /\ UNCHANGED <<nextId, now, ticks>>

\* a where-filter of delete_all that leaves the thread out
AllItemsOfAnyThread(conf_uid, history_uid) ==
    {it \in store : it.conf_uid = conf_uid}

\* the where-filter of delete_all (lines 422-428): conf_uid always, history_uid when given
AllItemsOf(conf_uid, history_uid) ==
    {it \in store :
        /\ it.conf_uid = conf_uid
        /\ (history_uid # "" => it.history_uid = history_uid)}

\* delete_all(conf_uid, history_uid) (lines 429-435)
DeleteAll(conf_uid, history_uid) ==
    /\ store' = store \ AllItemsOf(conf_uid, history_uid)
    /\ last' = [op |-> "delete_all", conf_uid |-> conf_uid, history_uid |-> history_uid,
                ret |-> Cardinality(AllItemsOf(conf_uid, history_uid))]
    /\ UNCHANGED <<nextId, now, ticks>>

\* the wall clock advances between calls
Tick(d) ==
    /\ ticks < MaxTicks
    /\ now' = now + d
    /\ ticks' = ticks + 1
    /\ UNCHANGED <<store, nextId, last>>

----------------------------------------------------------------------------
(* Inputs the calls are made with *)

HistoryUids == {"h1", "h2"}
ConfUids == {"c1", "c2"}

\* raw contents: empty, whitespace only, and texts that strip to "a" and to "b"
BlankContents == {<<>>, <<" ">>, <<"\n", " ">>}
TextA == <<"a">>
TextB == <<" ", "b", "\n">>


\* exclude_roles arguments: absent, empty, and two other sets
ExcludeArgs ==
    {NoRoles, GivenRoles({}), GivenRoles({ROLE_SUMMARY}), GivenRoles({ROLE_USER, ROLE_FACT})}

----------------------------------------------------------------------------
(* Initial states *)

InitStore ==
    /\ store = {}
    /\ nextId = 0
    /\ now = 0
    /\ ticks = 0
    /\ last = [op |-> "none"]

IngestIdle ==
    /\ ingest = [pc |-> "idle"]
    /\ knowledge = <<>>

ChunkIdle ==
    /\ text = <<>>
    /\ chunk_size = 0
    /\ chunk_overlap = 0
    /\ start = 0
    /\ chunks = <<>>
    /\ cpc = "idle"
    /\ IngestIdle

SchedIdle == sched = [p \in {"p1", "p2"} |-> [pc |-> "idle"]]

----------------------------------------------------------------------------
(* Retention: add_item and delete_older_than_days as days pass *)

\* no conversation turn has run and the thread has no messages
TurnIdle ==
    /\ turn = [pc |-> "idle", n |-> 0]
    /\ history = <<>>
    /\ bg_tasks = <<>>
    /\ cleanup_tasks = 0

InitMemory == InitStore /\ ChunkIdle /\ SchedIdle /\ TurnIdle

\* the retention sweep as the pipeline calls it: no exclude_roles argument
NextCleanup ==
    \/ Tick(SecondsPerDay) /\ UNCHANGED <<chunkVars, schedVars, turnVars>>
    \/ \E role \in Roles, h \in HistoryUids :
          AddItem(role, TextA, h, "c1") /\ UNCHANGED <<chunkVars, schedVars, turnVars>>
    \/ \E days \in {0, 1}, h \in {"", "h1"} :
          DeleteOlderThanDays(days, h, NoRoles) /\ UNCHANGED <<chunkVars, schedVars, turnVars>>

SpecCleanup == InitMemory /\ [][NextCleanup]_vars

\* the same with every exclude_roles argument
NextRetention ==
    \/ Tick(SecondsPerDay) /\ UNCHANGED <<chunkVars, schedVars, turnVars>>
    \/ \E role \in Roles, h \in HistoryUids :
          AddItem(role, TextA, h, "c1") /\ UNCHANGED <<chunkVars, schedVars, turnVars>>
    \/ \E days \in {0, 1}, h \in {"", "h1"}, ex \in ExcludeArgs :
          DeleteOlderThanDays(days, h, ex) /\ UNCHANGED <<chunkVars, schedVars, turnVars>>

SpecRetention == InitMemory /\ [][NextRetention]_vars

\* C2: a sweep without an exclude_roles argument, and add_item, never remove a
\* stored fact or user_profile item, whatever its age (days = 0 included).
C2_PersistentRolesKept ==
    [][\A it \in store : it.role \in PERSISTENT_ROLES => it \in store']_vars

\* C2: a sweep with days = 0 has just deleted something while a fact or profile older
\* than its cutoff stayed.
C2_Witness ==
    /\ last.op = "delete_older_than_days"
    /\ last.days = 0
    /\ last.ret > 0
    /\ \E it \in store : it.role \in PERSISTENT_ROLES /\ it.timestamp < last.cutoff

\* the items C3 says delete_older_than_days deletes: exclude_roles taken as passed
ClaimedOlderItems(days, history_uid, exclude_roles) ==
    {it \in store :
        /\ it.timestamp < Cutoff(days)
        /\ (history_uid # "" => it.history_uid = history_uid)
        /\ it.role \notin (IF exclude_roles.given THEN exclude_roles.roles
                           ELSE PERSISTENT_ROLES)}

\* C3: delete_older_than_days deletes exactly the items older than the cutoff whose
\* role is not in exclude_roles (the default, any other set, the empty set) and whose
\* history_uid matches when given; every other item stays.
C3_DeletesExactlyClaimed ==
    [][\A days \in {0, 1}, h \in {"", "h1"}, ex \in ExcludeArgs :
          DeleteOlderThanDays(days, h, ex) =>
              store' = store \ ClaimedOlderItems(days, h, ex)]_vars

\* C4: a second delete_older_than_days with the same arguments and cutoff right after
\* the first deletes nothing, returns 0 and leaves the collection as it was.
C4_DeleteIdempotent ==
    (last.op = "delete_older_than_days" /\ last.repeat) =>
        (last.ret = 0 /\ ~last.changed)

\* C4: the first of the two calls deleted two items, the second has returned.
C4_Witness ==
    /\ last.op = "delete_older_than_days"
    /\ last.repeat
    /\ last.prior_ret = 2

----------------------------------------------------------------------------
(* Facts and profiles: writes within the same second and a second apart *)

\* the contents a caller passes: blank ones and two texts
Contents == BlankContents \cup {TextA, TextB}

NextProfile ==
    \/ Tick(1) /\ UNCHANGED <<chunkVars, schedVars, turnVars>>
    \/ \E content \in Contents :
          AddItem(ROLE_FACT, content, "h1", "c1") /\ UNCHANGED <<chunkVars, schedVars, turnVars>>
    \/ \E c \in ConfUids, content \in Contents :
          SetUserProfile("h1", c, content) /\ UNCHANGED <<chunkVars, schedVars, turnVars>>
    \/ \E content \in Contents :
          AddToUserProfile("h1", "c1", content) /\ UNCHANGED <<chunkVars, schedVars, turnVars>>
    \/ \E c \in ConfUids \cup {""} :
          GetUserProfile("h1", c) /\ UNCHANGED <<chunkVars, schedVars, turnVars>>
    \/ \E limit \in {0, 1, 50} :
          GetAllFacts("h1", "c1", limit) /\ UNCHANGED <<chunkVars, schedVars, turnVars>>
    \/ CountItems /\ UNCHANGED <<chunkVars, schedVars, turnVars>>

SpecProfile == InitMemory /\ [][NextProfile]_vars

\* C5: add_item, set_user_profile and add_to_user_profile with blank content change
\* nothing (add_item returns the empty id, the other two return None), and every
\* stored item has non-empty trimmed content.
C5_BlankContentIsNoOp ==
    /\ (last.op \in {"add_item", "set_user_profile", "add_to_user_profile"}
          /\ Strip(last.content) = <<>>) =>
           /\ ~last.changed
           /\ last.op = "add_item" => last.ret = EmptyId
           /\ last.op # "add_item" => last.ret = "None"
    /\ \A it \in store : Strip(it.content) # <<>>

\* C5: add_item with whitespace-only content has returned on a store that holds items.
C5_Witness ==
    /\ last.op = "add_item"
    /\ last.content \in BlankContents \ {<<>>}
    /\ store # {}

\* the user_profile item of a scope that was written last
LastWrittenProfile(history_uid, conf_uid) ==
    CHOOSE it \in ScopeItems(ROLE_USER_PROFILE, history_uid, conf_uid) :
        \A o \in ScopeItems(ROLE_USER_PROFILE, history_uid, conf_uid) : o.id <= it.id

\* C6: get_user_profile returns the content of the profile written last for the
\* scope (after set_user_profile(c1) then set_user_profile(c2): exactly c2), at
\* whatever times the writes happened.
C6_LatestProfileWins ==
    (/\ last.op = "get_user_profile"
     /\ last.conf_uid # ""
     /\ ScopeItems(ROLE_USER_PROFILE, last.history_uid, last.conf_uid) # {}) =>
        last.ret = LastWrittenProfile(last.history_uid, last.conf_uid).content

\* C7: get_all_facts returns facts in strictly descending timestamp order, a fact
\* written later before a fact written earlier, at most `limit` of them, the newest.
C7_FactsStrictlyNewestFirst ==
    last.op = "get_all_facts" =>
        LET out == last.items
            all == ScopeItems(ROLE_FACT, last.history_uid, last.conf_uid)
        IN  /\ \A i, j \in 1..Len(out) :
                  i < j => (out[i].timestamp > out[j].timestamp /\ out[i].id > out[j].id)
            /\ Len(out) <= last.limit
            /\ Len(out) = Min(last.limit, Cardinality(all))
            /\ \A i \in 1..Len(out) : \A o \in all :
                  (\A j \in 1..Len(out) : out[j] # o) => o.id < out[i].id

\* the content of the profile of a scope that was written last, <<>> without one
ActiveProfile(history_uid, conf_uid) ==
    IF ScopeItems(ROLE_USER_PROFILE, history_uid, conf_uid) = {} THEN <<>>
    ELSE LastWrittenProfile(history_uid, conf_uid).content

\* C31: add_to_user_profile with a non-blank fact adds exactly one user_profile item
\* of the scope, whose content is the profile written last followed by "\n- fact"
\* (just "- fact" without a profile), and changes or removes no other item; and a
\* get_user_profile of the scope that follows the call returns that content.
C31_AddToProfileAppends ==
    /\ [][(last'.op = "add_to_user_profile" /\ nextId' > nextId) =>
             \E it \in store' \ store :
                /\ store' = store \cup {it}
                /\ it.role = ROLE_USER_PROFILE
                /\ it.history_uid = last'.history_uid /\ it.conf_uid = last'.conf_uid
                /\ it.content = MergedProfile(ActiveProfile(last'.history_uid,
                                                            last'.conf_uid),
                                              last'.content)]_vars
    /\ [][(/\ last.op = "add_to_user_profile" /\ ~Blank(last.content)
           /\ last'.op = "get_user_profile"
           /\ last'.history_uid = last.history_uid /\ last'.conf_uid = last.conf_uid)
             => last'.ret = LastWrittenProfile(last.history_uid, last.conf_uid).content]_vars

----------------------------------------------------------------------------
(* Similarity query on an empty and on a filled store *)

NextQuery ==
    \/ \E role \in {ROLE_FACT, ROLE_SUMMARY}, h \in HistoryUids, content \in {TextA, TextB} :
          AddItem(role, content, h, "c1") /\ UNCHANGED <<chunkVars, schedVars, turnVars>>
    \/ \E n \in {-1, 0, 1, 5}, h \in HistoryUids \cup {""},
          roles \in {NoRoles, GivenRoles({ROLE_FACT}), GivenRoles({ROLE_FACT, ROLE_SUMMARY})} :
          Query(n, h, "c1", roles) /\ UNCHANGED <<chunkVars, schedVars, turnVars>>

SpecQuery == InitMemory /\ [][NextQuery]_vars

\* C10: query returns an empty list without raising on an empty store for any
\* n_results, and returns an empty list without calling the adapter's query when
\* the store is not empty and min(n_results, count) <= 0.
C10_QueryEmptyWithoutAdapter ==
    (last.op = "query" /\ (Count = 0 \/ Min(last.n_results, Count) <= 0)) =>
        (last.ret = <<>> /\ ~last.raised /\ ~last.adapter_called)

----------------------------------------------------------------------------
(* ChromaRAG._chunk_text *)

\* all texts over an alphabet up to a length
RECURSIVE TextsUpTo(_, _)
TextsUpTo(alphabet, n) ==
    IF n = 0 THEN {<<>>}
    ELSE LET shorter == TextsUpTo(alphabet, n - 1)
         IN  shorter \cup {Append(t, ch) : t \in shorter, ch \in alphabet}

\* _chunk_text is entered with any text, chunk_size and chunk_overlap
InitChunk ==
    /\ InitStore /\ SchedIdle /\ TurnIdle
    /\ text \in TextsUpTo({"a", "b", " "}, MaxTextLen)
    /\ chunk_size \in 0..MaxChunkSize
    /\ chunk_overlap \in 0..MaxChunkSize
    /\ start = 0
    /\ chunks = <<>>
    /\ cpc = "call"
    /\ IngestIdle

\* lines 133-137: text = text.strip(); if not text: return []; chunks = []; start = 0
ChunkEnter ==
    /\ cpc = "call"
    /\ text' = Strip(text)
    /\ chunks' = <<>>
    /\ start' = 0
    /\ cpc' = IF Strip(text) = <<>> THEN "done" ELSE "loop"
    /\ UNCHANGED <<chunk_size, chunk_overlap>>

\* an iteration that starts the next chunk where this one ended, without the overlap
ChunkStepNoOverlap ==
    /\ cpc = "loop"
    /\ Len(chunks) < MaxChunks
    /\ IF start < Len(text)
       THEN LET end == start + chunk_size
            IN  /\ chunks' = Append(chunks, PySlice(text, start, end))
                /\ start' = end
                /\ cpc' = IF end >= Len(text) THEN "done" ELSE "loop"
       ELSE /\ cpc' = "done"
            /\ UNCHANGED <<chunks, start>>
    /\ UNCHANGED <<text, chunk_size, chunk_overlap>>

\* one iteration of the while loop, lines 138-144. The loop test is true whenever it
\* is evaluated (start is 0 on a non-empty text, and the break leaves on start >= len),
\* so its false branch is kept only to match the code.
ChunkStep ==
    /\ cpc = "loop"
    /\ Len(chunks) < MaxChunks
    /\ IF start < Len(text)
       THEN LET end == start + chunk_size
            IN  /\ chunks' = Append(chunks, PySlice(text, start, end))
                /\ start' = end - chunk_overlap
                /\ cpc' = IF end - chunk_overlap >= Len(text) THEN "done" ELSE "loop"
       ELSE /\ cpc' = "done"
            /\ UNCHANGED <<chunks, start>>
    /\ UNCHANGED <<text, chunk_size, chunk_overlap>>

NextChunk ==
    \/ ChunkEnter /\ UNCHANGED <<ingest, knowledge, storeVars, schedVars, turnVars>>
    \/ ChunkStep /\ UNCHANGED <<ingest, knowledge, storeVars, schedVars, turnVars>>

SpecChunk == InitChunk /\ [][NextChunk]_vars

\* the first chunk followed by every later chunk without its first `overlap` characters
RECURSIVE OverlapRemoved(_, _)
OverlapRemoved(cs, overlap) ==
    IF cs = <<>> THEN <<>>
    ELSE IF Len(cs) = 1 THEN cs[1]
    ELSE OverlapRemoved(SubSeq(cs, 1, Len(cs) - 1), overlap)
             \o PySlice(cs[Len(cs)], overlap, Len(cs[Len(cs)]))

\* C8: for chunk_size > chunk_overlap >= 0 every chunk except the last has length
\* chunk_size, and the chunks with the overlaps removed give back the trimmed text.
C8_FullChunksAndReconstruction ==
    (cpc = "done" /\ chunk_size > chunk_overlap /\ chunk_overlap >= 0) =>
        /\ \A k \in 1..(Len(chunks) - 1) : Len(chunks[k]) = chunk_size
        /\ OverlapRemoved(chunks, chunk_overlap) = text

\* C9: _chunk_text never goes round its loop without moving start forward, so it
\* terminates for every chunk_size and chunk_overlap (chunk_overlap >= chunk_size
\* included). An iteration that leaves start where it was, or moves it back, repeats
\* for ever: the advance chunk_size - chunk_overlap is the same in every iteration.
C9_LoopAlwaysAdvances ==
    [][(cpc = "loop" /\ cpc' = "loop") => start' > start]_vars

\* the lengths of the chunks the loop of lines 138-144 makes of a text of length L,
\* from the given start on (chunk_size > chunk_overlap)
RECURSIVE ChunkLengthsFrom(_, _, _, _)
ChunkLengthsFrom(L, size, overlap, from) ==
    IF from < L
    THEN LET end == from + size
             piece == (IF end < L THEN end ELSE L) - from
         IN  IF end - overlap >= L
             THEN <<piece>>
             ELSE <<piece>> \o ChunkLengthsFrom(L, size, overlap, end - overlap)
    ELSE <<>>

\* the starts k * (chunk_size - chunk_overlap) that lie below L
StartsBelow(L, size, overlap) == {k \in 0..L : k * (size - overlap) < L}

\* C28: for trimmed text of length L and chunk_size > chunk_overlap >= 0 the chunk
\* number k (from 0) is the slice of chunk_size characters that starts at
\* k * (chunk_size - chunk_overlap), there is one chunk for every such start below L
\* and no other, and no chunk is empty; blank text gives no chunk. A text of 1000
\* characters with chunk_size 512 and chunk_overlap 64 gives chunks of 512, 512, 104.
C28_ChunkStarts ==
    /\ (cpc = "done" /\ chunk_size > chunk_overlap /\ chunk_overlap >= 0) =>
          LET advance == chunk_size - chunk_overlap
              n == Cardinality(StartsBelow(Len(text), chunk_size, chunk_overlap))
          IN  /\ Len(chunks) = n
              /\ \A k \in 0..(n - 1) :
                    /\ chunks[k + 1] = PySlice(text, k * advance, k * advance + chunk_size)
                    /\ chunks[k + 1] # <<>>
              /\ text = <<>> => chunks = <<>>
              /\ [k \in 1..n |-> Len(chunks[k])]
                    = ChunkLengthsFrom(Len(text), chunk_size, chunk_overlap, 0)
    /\ ChunkLengthsFrom(1000, 512, 64, 0) = <<512, 512, 104>>

\* a text cut into four overlapping chunks
C28_Witness ==
    /\ cpc = "done"
    /\ chunk_size > chunk_overlap
    /\ chunk_overlap > 0
    /\ Len(chunks) = 4

----------------------------------------------------------------------------
(* ChromaRAG.add_documents_from_directory: the ingestion of a directory *)

\* default of the extensions parameter, line 89
Extensions == {".txt", ".md"}

\* str.lower() on the suffixes that occur in the model
Lower(s) == CASE s = ".MD" -> ".md" [] s = ".TXT" -> ".txt" [] OTHER -> s

\* what path.rglob("*") may yield: a suffix, whether read_text succeeds, and the text read
FileKinds ==
    { [suffix |-> ".txt", readable |-> TRUE, text |-> <<"a">>],
      [suffix |-> ".MD", readable |-> TRUE, text |-> <<" ", "a", "b", "c">>],
      [suffix |-> ".md", readable |-> TRUE, text |-> <<" ">>],
      [suffix |-> ".txt", readable |-> FALSE, text |-> <<>>],
      [suffix |-> ".py", readable |-> TRUE, text |-> <<"a">>] }

\* the listings of a directory, in the order rglob yields them; the position of a file
\* in the listing stands for its path
Listings == TextsUpTo(FileKinds, MaxFiles)

\* the call is entered with any directory, chunk_size and chunk_overlap
InitIngest ==
    /\ InitStore /\ SchedIdle /\ TurnIdle
    /\ text = <<>>
    /\ start = 0
    /\ chunks = <<>>
    /\ cpc = "idle"
    /\ chunk_size \in 0..MaxChunkSize
    /\ chunk_overlap \in 0..MaxChunkSize
    /\ knowledge = <<>>
    /\ \E is_dir \in BOOLEAN, files \in Listings :
          /\ is_dir \/ files = <<>>
          /\ ingest = [pc |-> "call", is_dir |-> is_dir, files |-> files, i |-> 1,
                       all_chunks |-> <<>>, all_metadatas |-> <<>>, ret |-> 0, raised |-> ""]

\* lines 106-111: the directory test, all_chunks = [], all_metadatas = []
IngestEnter ==
    /\ ingest.pc = "call"
    /\ ingest' = IF ingest.is_dir
                 THEN [ingest EXCEPT !.pc = "files"]
                 ELSE [ingest EXCEPT !.pc = "done", !.raised = "FileNotFoundError"]
    /\ UNCHANGED <<text, chunk_size, chunk_overlap, start, chunks, cpc, knowledge>>

\* lines 113-120: the next file of the listing; a file of another suffix or one that
\* cannot be read is passed over, any other file is handed to _chunk_text
IngestFile ==
    /\ ingest.pc = "files"
    /\ ingest.i <= Len(ingest.files)
    /\ LET f == ingest.files[ingest.i]
       IN  IF Lower(f.suffix) \notin Extensions \/ ~f.readable
           THEN /\ ingest' = [ingest EXCEPT !.i = @ + 1]
                /\ UNCHANGED <<text, cpc>>
           ELSE /\ ingest' = [ingest EXCEPT !.pc = "chunking"]
                /\ text' = f.text
                /\ cpc' = "call"
    /\ UNCHANGED <<chunk_size, chunk_overlap, start, chunks, knowledge>>

\* lines 121-124: every chunk of the file with its source and its index in the file
IngestCollect ==
    /\ ingest.pc = "chunking"
    /\ cpc = "done"
    /\ ingest' = [ingest EXCEPT
                    !.pc = "files",
                    !.i = @ + 1,
                    !.all_chunks = @ \o chunks,
                    !.all_metadatas = @ \o [k \in 1..Len(chunks) |->
                                              [source |-> ingest.i, chunk_index |-> k - 1]]]
    /\ cpc' = "idle"
    /\ UNCHANGED <<text, chunk_size, chunk_overlap, start, chunks, knowledge>>

\* add_documents, lines 73-84: the collection after the add
KnowledgeAfterAdd(documents, metadatas) ==
    knowledge \o [k \in 1..Len(documents) |->
                    [document |-> documents[k], metadata |-> metadatas[k]]]

\* add_documents: nothing to add returns 0 (line 73), otherwise len(documents) (line 84)
AddDocumentsResult(documents) == Len(documents)

\* lines 125-127: the end of the listing
IngestReturn ==
    /\ ingest.pc = "files"
    /\ ingest.i > Len(ingest.files)
    /\ IF ingest.all_chunks = <<>>
       THEN /\ ingest' = [ingest EXCEPT !.pc = "done", !.ret = 0]
            /\ UNCHANGED knowledge
       ELSE /\ knowledge' = KnowledgeAfterAdd(ingest.all_chunks, ingest.all_metadatas)
            /\ ingest' = [ingest EXCEPT !.pc = "done",
                                        !.ret = AddDocumentsResult(ingest.all_chunks)]
    /\ UNCHANGED <<text, chunk_size, chunk_overlap, start, chunks, cpc>>

NextIngest ==
    \/ IngestEnter /\ UNCHANGED <<storeVars, schedVars, turnVars>>
    \/ IngestFile /\ UNCHANGED <<storeVars, schedVars, turnVars>>
    \/ ChunkEnter /\ UNCHANGED <<ingest, knowledge, storeVars, schedVars, turnVars>>
    \/ ChunkStep /\ UNCHANGED <<ingest, knowledge, storeVars, schedVars, turnVars>>
    \/ IngestCollect /\ UNCHANGED <<storeVars, schedVars, turnVars>>
    \/ IngestReturn /\ UNCHANGED <<storeVars, schedVars, turnVars>>

\* the call is one synchronous function: a step that can be taken is taken
SpecIngest == InitIngest /\ [][NextIngest]_vars /\ WF_vars(NextIngest)

\* the files of the listing that are read and chunked
Qualifying(files) ==
    {i \in 1..Len(files) : Lower(files[i].suffix) \in Extensions /\ files[i].readable}

\* the documents stored for file i
StoredOf(i) == {k \in 1..Len(knowledge) : knowledge[k].metadata.source = i}

\* what a finished call has done
IngestResultOK ==
    ingest.pc = "done" =>
        /\ (ingest.raised = "FileNotFoundError") <=> ~ingest.is_dir
        /\ ingest.raised = "" => ingest.ret = Len(knowledge)
        /\ \A k \in 1..Len(knowledge) : knowledge[k].metadata.source \in Qualifying(ingest.files)
        /\ \A i \in Qualifying(ingest.files) :
              {knowledge[k].metadata.chunk_index : k \in StoredOf(i)}
                  = 0..(Cardinality(StoredOf(i)) - 1)

\* C21: add_documents_from_directory raises the not-found error exactly when the root
\* is not a directory, and for every directory it returns: the number of chunks it
\* added, every chunk stored with its file and an index 0..k-1 within the file, and 0
\* with nothing added when no file gave a chunk. A call that returns leaves the loop
\* that splits a file: every pass that stays in the loop moves its start forward.
C21_IngestReturnsChunkCount ==
    /\ [](IngestResultOK)
    /\ [][(ingest.pc = "chunking" /\ cpc = "loop" /\ cpc' = "loop") => start' > start]_vars
    /\ <>(ingest.pc = "done")

----------------------------------------------------------------------------
(* process_memory_background: the consolidation scheduler *)

FACT_EXTRACT_EVERY == 3
SUMMARY_EVERY == 6

\* the calls that may be running at once
Procs == {"p1", "p2"}

\* a cadence test with the wrong period: (message_count - 3) % 6
FactDueWrongPeriod(message_count) ==
    /\ message_count >= FACT_EXTRACT_EVERY
    /\ (message_count - FACT_EXTRACT_EVERY) % SUMMARY_EVERY = 0

\* lines 86-89
FactDue(message_count) ==
    /\ message_count >= FACT_EXTRACT_EVERY
    /\ (message_count - FACT_EXTRACT_EVERY) % FACT_EXTRACT_EVERY = 0

\* lines 135-138
SummaryDue(message_count) ==
    /\ message_count >= SUMMARY_EVERY
    /\ (message_count - SUMMARY_EVERY) % SUMMARY_EVERY = 0

\* the delimiters of re.split(r"[\n•\-]", ...); "*" stands for the bullet
FactDelimiters == {"\n", "*", "-"}

\* re.split on single-character delimiters: the pieces between them, empty ones included
RECURSIVE SplitOn(_, _)
SplitOn(s, delims) ==
    IF s = <<>> THEN << <<>> >>
    ELSE LET rest == SplitOn(Tail(s), delims)
         IN  IF Head(s) \in delims THEN << <<>> >> \o rest
             ELSE << <<Head(s)>> \o rest[1] >> \o Tail(rest)

\* lines 96-101: the stripped pieces longer than 3 characters, the first 10 of them
ExtractedFacts(facts_text) ==
    LET pieces == SplitOn(facts_text, FactDelimiters)
        stripped == [i \in 1..Len(pieces) |-> Strip(pieces[i])]
    IN  PySlice(SelectSeq(stripped, LAMBDA f : f # <<>> /\ Len(f) > 3), 0, 10)

\* what the LLM collaborator answers: it raises, or it returns a text
LLMTexts ==
    {<<>>, <<" ">>, <<"a", "b", "c", "d">>,
     <<"a", "b", "c", "d", "\n", "a", "b", "-", " ", "e", "f", "g", "h", " ">>}
LLMOutcomes ==
    {[raised |-> TRUE, text |-> <<>>]} \cup {[raised |-> FALSE, text |-> t] : t \in LLMTexts}

\* what get_history gives (line 71): it raises, or it returns a thread of len messages
HistoryLens == {0, 2, 12}
HistoryOutcomes ==
    {[raised |-> TRUE, len |-> 0]} \cup {[raised |-> FALSE, len |-> n] : n \in HistoryLens}

\* a store that keeps one item per role, thread, character and content
ItemsAddedDeduplicated(contents, role, history_uid, conf_uid) ==
    {it \in {[id |-> nextId + i, role |-> role, content |-> Strip(contents[i]),
              history_uid |-> history_uid, conf_uid |-> conf_uid, timestamp |-> now] :
                i \in 1..Len(contents)} :
        \A old \in ScopeItems(role, history_uid, conf_uid) : old.content # it.content}

\* the items a run of add_item calls stores: one per content, ids in call order
ItemsAdded(contents, role, history_uid, conf_uid) ==
    {[id |-> nextId + i, role |-> role, content |-> Strip(contents[i]),
      history_uid |-> history_uid, conf_uid |-> conf_uid, timestamp |-> now] :
        i \in 1..Len(contents)}

\* the places of a call where a collaborator may raise an Exception
FaultSites ==
    {"get_history", "llm_extract", "add_item_fact", "get_all_facts",
     "llm_merge", "set_user_profile", "llm_summary", "add_item_summary"}

\* the try blocks without the outer one of lines 70 and 157-158
HandlerNoOuterTry(site) ==
    CASE site \in {"llm_merge", "set_user_profile"} -> "merge"
      [] site \in {"llm_extract", "add_item_fact", "get_all_facts"} -> "facts"
      [] site \in {"llm_summary", "add_item_summary"} -> "summary"
      [] OTHER -> "none"

\* one try block around the fact stage and the summarization together
HandlerOneTry(site) ==
    CASE site \in {"llm_merge", "set_user_profile", "llm_extract", "add_item_fact",
                   "get_all_facts", "llm_summary", "add_item_summary"} -> "summary"
      [] site = "get_history" -> "outer"
      [] OTHER -> "none"

\* the except clause that catches an Exception raised at a site, the innermost try
\* around it: lines 114/126 (merge), 90/131 (facts), 139/154 (summary), 70/157 (outer)
Handler(site) ==
    CASE site \in {"llm_merge", "set_user_profile"} -> "merge"
      [] site \in {"llm_extract", "add_item_fact", "get_all_facts"} -> "facts"
      [] site \in {"llm_summary", "add_item_summary"} -> "summary"
      [] site = "get_history" -> "outer"
      [] OTHER -> "none"

\* the fact stage is over (lines 134-138): summarize if due, else return
AfterFacts(call) ==
    IF SummaryDue(call.message_count)
    THEN [call EXCEPT !.pc = "summary", !.summary_attempted = TRUE]
    ELSE [call EXCEPT !.pc = "done"]

\* an Exception is raised at a site: control resumes after the try whose except clause
\* catches it (the handlers only log), or the exception leaves the call
Raise(call, site) ==
    LET failed == [call EXCEPT !.failed = @ \cup {site}]
    IN  CASE Handler(site) \in {"merge", "facts"} -> AfterFacts(failed)
          [] Handler(site) \in {"summary", "outer"} -> [failed EXCEPT !.pc = "done"]
          [] OTHER -> [failed EXCEPT !.pc = "done", !.escaped = TRUE]

\* a call without the early returns of lines 67-68 and 72-73
SchedCallNoEarlyReturn(p, memory, conf_uid, history_uid, message_count, hist) ==
    /\ sched[p].pc = "idle"
    /\ nextId < MaxAdds
    /\ LET call == [pc |-> "done", memory |-> memory, conf_uid |-> conf_uid,
                    history_uid |-> history_uid, message_count |-> message_count,
                    history_len |-> hist.len, last_n |-> Min(10, hist.len),
                    extract_attempted |-> FALSE, summary_attempted |-> FALSE,
                    facts |-> <<>>, prompt |-> <<>>, written |-> {},
                    failed |-> {}, escaped |-> FALSE]
       IN  sched' = [sched EXCEPT ![p] =
                IF hist.raised THEN Raise(call, "get_history")
                ELSE IF FactDue(message_count)
                     THEN [call EXCEPT !.pc = "extract", !.extract_attempted = TRUE]
                     ELSE AfterFacts(call)]
    /\ UNCHANGED storeVars

\* lines 67-94: the call up to its first await. dialog_text (lines 78-83) is blank
\* only for an empty thread, as every line of it starts with the speaker's label.
SchedCall(p, memory, conf_uid, history_uid, message_count, hist) ==
    /\ sched[p].pc = "idle"
    /\ nextId < MaxAdds
    /\ LET call == [pc |-> "done", memory |-> memory, conf_uid |-> conf_uid,
                    history_uid |-> history_uid, message_count |-> message_count,
                    history_len |-> hist.len, last_n |-> Min(10, hist.len),
                    extract_attempted |-> FALSE, summary_attempted |-> FALSE,
                    facts |-> <<>>, prompt |-> <<>>, written |-> {},
                    failed |-> {}, escaped |-> FALSE]
       IN  sched' = [sched EXCEPT ![p] =
                IF ~memory \/ history_uid = "" \/ conf_uid = "" THEN call
                ELSE IF hist.raised THEN Raise(call, "get_history")
                ELSE IF hist.len = 0 THEN call
                ELSE IF FactDue(message_count)
                     THEN [call EXCEPT !.pc = "extract", !.extract_attempted = TRUE]
                     ELSE AfterFacts(call)]
    /\ UNCHANGED storeVars

\* the store calls of one await-free stretch are numbered from 1; fault is the number
\* of the one that raises, 0 (or a number past the last call) when none does
StoreFaults == 0..3

\* lines 91-113: the fact-extraction answer arrives; facts are written and re-read
SchedExtractReturn(p, out, fault) ==
    /\ sched[p].pc = "extract"
    /\ IF out.raised
       THEN /\ sched' = [sched EXCEPT ![p] = Raise(@, "llm_extract")]
            /\ UNCHANGED storeVars
       ELSE IF Blank(out.text)
       THEN /\ sched' = [sched EXCEPT ![p] = AfterFacts(@)]
            /\ UNCHANGED storeVars
       ELSE LET facts == ExtractedFacts(out.text)
                stored == IF fault \in 1..Len(facts) THEN SubSeq(facts, 1, fault - 1)
                          ELSE facts
                items == ItemsAdded(stored, ROLE_FACT, sched[p].history_uid,
                                    sched[p].conf_uid)
                call == [sched[p] EXCEPT !.facts = facts, !.written = @ \cup items]
                after == store \cup items
            IN  /\ store' = after
                /\ nextId' = nextId + Len(stored)
                /\ last' = [op |-> "process_memory_background", proc |-> p]
                /\ UNCHANGED <<now, ticks>>
                /\ IF fault \in 1..Len(facts)
                   THEN sched' = [sched EXCEPT ![p] = Raise(call, "add_item_fact")]
                   ELSE IF fault = Len(facts) + 1
                   THEN sched' = [sched EXCEPT ![p] = Raise(call, "get_all_facts")]
                   ELSE \E got \in Orderings(ScopeItemsIn(after, ROLE_FACT,
                                               call.history_uid, call.conf_uid)) :
                      LET newest == FactsNewestFirst(got, 50)
                          all_facts == [i \in 1..Len(newest) |-> Strip(newest[i].content)]
                      IN  sched' = [sched EXCEPT ![p] =
                              IF all_facts # <<>>
                              THEN [call EXCEPT !.pc = "merge",
                                                !.prompt = PySlice(all_facts, 0, 30)]
                              ELSE AfterFacts(call)]

\* lines 115-127: the profile-merge answer arrives; set_user_profile
SchedMergeReturn(p, out, fault) ==
    /\ sched[p].pc = "merge"
    /\ IF out.raised
       THEN /\ sched' = [sched EXCEPT ![p] = Raise(@, "llm_merge")]
            /\ UNCHANGED storeVars
       ELSE IF Blank(out.text)
       THEN /\ sched' = [sched EXCEPT ![p] = AfterFacts(@)]
            /\ UNCHANGED storeVars
       ELSE IF fault = 1
       THEN /\ sched' = [sched EXCEPT ![p] = Raise(@, "set_user_profile")]
            /\ UNCHANGED storeVars
       ELSE LET items == ItemsAdded(<<out.text>>, ROLE_USER_PROFILE,
                                    sched[p].history_uid, sched[p].conf_uid)
            IN  /\ sched' = [sched EXCEPT ![p] =
                                 AfterFacts([@ EXCEPT !.written = @ \cup items])]
                /\ store' = store \cup items
            /\ nextId' = nextId + 1
            /\ last' = [op |-> "process_memory_background", proc |-> p]
            /\ UNCHANGED <<now, ticks>>

\* a summarization that stores its answer as a fact
SchedSummaryReturnAsFact(p, out, fault) ==
    /\ sched[p].pc = "summary"
    /\ IF out.raised
       THEN /\ sched' = [sched EXCEPT ![p] = Raise(@, "llm_summary")]
            /\ UNCHANGED storeVars
       ELSE IF Blank(out.text)
       THEN /\ sched' = [sched EXCEPT ![p].pc = "done"]
            /\ UNCHANGED storeVars
       ELSE IF fault = 1
       THEN /\ sched' = [sched EXCEPT ![p] = Raise(@, "add_item_summary")]
            /\ UNCHANGED storeVars
       ELSE LET items == ItemsAdded(<<out.text>>, ROLE_FACT,
                                    sched[p].history_uid, sched[p].conf_uid)
            IN  /\ sched' = [sched EXCEPT ![p] =
                                 [@ EXCEPT !.pc = "done", !.written = @ \cup items]]
                /\ store' = store \cup items
            /\ nextId' = nextId + 1
            /\ last' = [op |-> "process_memory_background", proc |-> p]
            /\ UNCHANGED <<now, ticks>>

\* lines 140-155: the summarization answer arrives; add_item(summary)
SchedSummaryReturn(p, out, fault) ==
    /\ sched[p].pc = "summary"
    /\ IF out.raised
       THEN /\ sched' = [sched EXCEPT ![p] = Raise(@, "llm_summary")]
            /\ UNCHANGED storeVars
       ELSE IF Blank(out.text)
       THEN /\ sched' = [sched EXCEPT ![p].pc = "done"]
            /\ UNCHANGED storeVars
       ELSE IF fault = 1
       THEN /\ sched' = [sched EXCEPT ![p] = Raise(@, "add_item_summary")]
            /\ UNCHANGED storeVars
       ELSE LET items == ItemsAdded(<<out.text>>, ROLE_SUMMARY,
                                    sched[p].history_uid, sched[p].conf_uid)
            IN  /\ sched' = [sched EXCEPT ![p] =
                                 [@ EXCEPT !.pc = "done", !.written = @ \cup items]]
                /\ store' = store \cup items
            /\ nextId' = nextId + 1
            /\ last' = [op |-> "process_memory_background", proc |-> p]
            /\ UNCHANGED <<now, ticks>>

\* the call has returned to its caller
SchedReturn(p) ==
    /\ sched[p].pc = "done"
    /\ sched' = [sched EXCEPT ![p] = [pc |-> "idle"]]
    /\ UNCHANGED storeVars

\* one call at a time, for every message_count, whatever the LLM answers and wherever
\* a collaborator fails
NextSched ==
    \/ Tick(1) /\ UNCHANGED <<chunkVars, schedVars, turnVars>>
    \/ \E memory \in BOOLEAN, c \in {"", "c1"}, h \in {"", "h1"},
          mc \in 0..MaxCount, hist \in HistoryOutcomes :
          SchedCall("p1", memory, c, h, mc, hist) /\ UNCHANGED <<chunkVars, turnVars>>
    \/ \E out \in LLMOutcomes, fault \in StoreFaults :
          SchedExtractReturn("p1", out, fault) /\ UNCHANGED <<chunkVars, turnVars>>
    \/ \E out \in LLMOutcomes, fault \in {0, 1} :
          SchedMergeReturn("p1", out, fault) /\ UNCHANGED <<chunkVars, turnVars>>
    \/ \E out \in LLMOutcomes, fault \in {0, 1} :
          SchedSummaryReturn("p1", out, fault) /\ UNCHANGED <<chunkVars, turnVars>>
    \/ SchedReturn("p1") /\ UNCHANGED <<chunkVars, turnVars>>

SpecSched == InitMemory /\ [][NextSched]_vars

\* C1: with memory enabled, non-empty history_uid and conf_uid and a non-empty thread,
\* a call with message_count in 1..20 asks the LLM for facts iff message_count is one
\* of 3, 6, 9, 12, 15, 18 and for a summary iff it is one of 6, 12, 18 (both at 6, 12, 18).
C1_Cadence ==
    \A p \in Procs :
        (/\ sched[p].pc = "done"
         /\ sched[p].memory /\ sched[p].history_uid # "" /\ sched[p].conf_uid # ""
         /\ sched[p].history_len > 0
         /\ sched[p].message_count \in 1..20) =>
            /\ sched[p].extract_attempted <=> sched[p].message_count \in {3, 6, 9, 12, 15, 18}
            /\ sched[p].summary_attempted <=> sched[p].message_count \in {6, 12, 18}

\* C1: a call with message_count 18 has finished after asking for facts and for a
\* summary, and has stored a fact and a summary.
C1_Witness ==
    /\ sched["p1"].pc = "done"
    /\ sched["p1"].message_count = 18
    /\ sched["p1"].extract_attempted /\ sched["p1"].summary_attempted
    /\ \E f, g \in store : f.role = ROLE_FACT /\ g.role = ROLE_SUMMARY

\* C11: process_memory_background never lets an error reach its caller: whichever of
\* the history read, the three LLM calls and the store reads and writes raises, the
\* call returns normally.
C11_NoErrorEscapes ==
    \A p \in Procs : sched[p].pc = "done" => ~sched[p].escaped

\* C11: a call has returned normally although the store failed while the facts were
\* written and the summarization LLM call failed afterwards.
C11_Witness ==
    /\ sched["p1"].pc = "done"
    /\ ~sched["p1"].escaped
    /\ {"add_item_fact", "llm_summary"} \subseteq sched["p1"].failed

\* C36: a call without a dialogue memory, with an empty history_uid or conf_uid, on
\* an empty thread (the only thread whose dialogue text is blank), or with a
\* message_count that is not a positive multiple of 3 returns at once: it asks the LLM
\* for nothing and writes nothing, and the step that makes it leaves the store as it was.
C36_NoWorkOffCadence ==
    /\ [](\A p \in Procs :
            (/\ sched[p].pc # "idle"
             /\ \/ ~sched[p].memory
                \/ sched[p].history_uid = "" \/ sched[p].conf_uid = ""
                \/ sched[p].history_len = 0
                \/ sched[p].message_count <= 0
                \/ sched[p].message_count % 3 # 0) =>
                /\ sched[p].pc = "done"
                /\ ~sched[p].extract_attempted /\ ~sched[p].summary_attempted
                /\ sched[p].written = {})
    /\ [][\A p \in Procs : (sched[p].pc = "idle" /\ sched'[p].pc # "idle") =>
             store' = store]_vars

\* C36: a call at count 6 for a thread and a character, with the memory enabled, has
\* returned on an empty thread, and a call before it has stored a summary.
C36_Witness ==
    /\ sched["p1"].pc = "done" /\ sched["p1"].message_count = 6
    /\ sched["p1"].memory
    /\ sched["p1"].history_uid = "h1" /\ sched["p1"].conf_uid = "c1"
    /\ sched["p1"].history_len = 0 /\ sched["p1"].failed = {}
    /\ \E it \in store : it.role = ROLE_SUMMARY

\* the sites of the fact stage
FactStageSites ==
    {"llm_extract", "add_item_fact", "get_all_facts", "llm_merge", "set_user_profile"}

\* C34: a call at a count where facts and a summary are due, whose fact stage failed
\* at any of its sites, has attempted the summarization once it is past the fact
\* stage; and after a failed profile-merge LLM call every fact the call extracted is
\* stored and the call has written no profile.
C34_FactFailureKeepsSummary ==
    \A p \in Procs :
        (/\ sched[p].pc \in {"summary", "done"}
         /\ sched[p].message_count >= 6 /\ sched[p].message_count % 6 = 0) =>
            /\ sched[p].failed \cap FactStageSites # {} => sched[p].summary_attempted
            /\ "llm_merge" \in sched[p].failed =>
                  /\ sched[p].written \subseteq store
                  /\ \A it \in sched[p].written :
                        it.role = ROLE_FACT \/ (it.role = ROLE_SUMMARY /\ sched[p].pc = "done")
                  /\ Cardinality({it \in sched[p].written : it.role = ROLE_FACT})
                        = Len(sched[p].facts)
                  /\ sched[p].facts # <<>>

\* C34: a call at count 6 has stored its fact, failed in the profile-merge LLM call
\* and then asked for the summary and stored it.
C34_Witness ==
    /\ sched["p1"].pc = "done" /\ sched["p1"].message_count = 6
    /\ sched["p1"].failed = {"llm_merge"}
    /\ sched["p1"].summary_attempted
    /\ \E f, g \in sched["p1"].written : f.role = ROLE_FACT /\ g.role = ROLE_SUMMARY


----------------------------------------------------------------------------
(* two consolidations of one thread at once *)

\* Two tasks of one thread run process_memory_background on the event loop: the loop
\* switches between them only at their awaits (lines 91, 115, 140), so the stretch
\* between two awaits (the fact writes and the re-read; the profile write) is one step.
\* Both are called at a message count where facts are due and no summary is; neither
\* is started again.
NextConc ==
    \/ Tick(1) /\ UNCHANGED <<chunkVars, schedVars, turnVars>>
    \/ \E p \in Procs :
          SchedCall(p, TRUE, "c1", "h1", FACT_EXTRACT_EVERY, [raised |-> FALSE, len |-> 2])
          /\ UNCHANGED <<chunkVars, turnVars>>
    \/ \E p \in Procs, out \in LLMOutcomes :
          SchedExtractReturn(p, out, 0) /\ UNCHANGED <<chunkVars, turnVars>>
    \/ \E p \in Procs, out \in LLMOutcomes :
          SchedMergeReturn(p, out, 0) /\ UNCHANGED <<chunkVars, turnVars>>

SpecConc == InitMemory /\ [][NextConc]_vars

\* the user_profile items a finished call wrote
ProfilesWritten(p) == {it \in sched[p].written : it.role = ROLE_USER_PROFILE}

\* both calls of the thread have finished and each has written a profile
BothFinished ==
    /\ \A p \in Procs : sched[p].pc = "done"
    /\ \A p \in Procs : ProfilesWritten(p) # {}

\* C12: when two consolidations of one thread have run at once, interleaved in any
\* order at their awaits, and both have finished: every item either wrote is in the
\* store as it was written (the facts and both profiles), and get_user_profile returns
\* the content of a profile one of them wrote, one whose timestamp is the maximum of
\* the thread's profiles.
C12_ConcurrentConsolidations ==
    BothFinished =>
        /\ \A p \in Procs : sched[p].written \subseteq store
        /\ \A got \in Orderings(ScopeItems(ROLE_USER_PROFILE, "h1", "c1")) :
              \E it \in ProfilesWritten("p1") \cup ProfilesWritten("p2") :
                  /\ LatestProfile(got) = it.content
                  /\ \A other \in ScopeItems(ROLE_USER_PROFILE, "h1", "c1") :
                        other.timestamp <= it.timestamp

\* C12: both calls have finished; the first wrote its facts and re-read them before the
\* second wrote its own, and the two profiles were written in different seconds.
C12_Witness ==
    /\ BothFinished
    /\ \E a \in ProfilesWritten("p1"), b \in ProfilesWritten("p2") :
          a.timestamp # b.timestamp
    /\ \E f \in sched["p2"].written :
          f.role = ROLE_FACT /\ Len(sched["p1"].prompt) < Cardinality(ScopeItems(ROLE_FACT, "h1", "c1"))

----------------------------------------------------------------------------
(* the scheduler called twice for the same message count *)

\* the counts at which facts are due, and at which facts and a summary are due
CadenceCounts == {FACT_EXTRACT_EVERY, SUMMARY_EVERY}

\* the LLM answers both calls: with nothing, or with one fact, profile or summary
DupOutcomes == {[raised |-> FALSE, text |-> t] : t \in {<<" ">>, <<"a", "b", "c", "d">>}}

\* Two calls for one thread with the same message_count: the second is made while the
\* first is at one of its awaits, or after the first has finished.
NextDup ==
    \/ \E p \in Procs, mc \in CadenceCounts :
          /\ \A q \in Procs : sched[q].pc # "idle" => sched[q].message_count = mc
          /\ SchedCall(p, TRUE, "c1", "h1", mc, [raised |-> FALSE, len |-> mc])
          /\ UNCHANGED <<chunkVars, turnVars>>
    \/ \E p \in Procs, out \in DupOutcomes :
          SchedExtractReturn(p, out, 0) /\ UNCHANGED <<chunkVars, turnVars>>
    \/ \E p \in Procs, out \in DupOutcomes :
          SchedMergeReturn(p, out, 0) /\ UNCHANGED <<chunkVars, turnVars>>
    \/ \E p \in Procs, out \in DupOutcomes :
          SchedSummaryReturn(p, out, 0) /\ UNCHANGED <<chunkVars, turnVars>>

SpecDup == InitMemory /\ [][NextDup]_vars

\* the items of a role among the given ones
OfRole(items, role) == {it \in items : it.role = role}

\* C23: two calls of the scheduler for the same cadence count on one thread, one after
\* the other or at once, both ask for the facts (and both for the summary when it is
\* due): the decision follows from message_count alone. Nothing is deduplicated: every
\* fact either call extracted and every summary either call wrote is kept as an item
\* of its own.
C23_NoDeduplication ==
    (\A p \in Procs : sched[p].pc = "done") =>
        /\ \A p \in Procs :
              /\ sched[p].extract_attempted <=> FactDue(sched[p].message_count)
              /\ sched[p].summary_attempted <=> SummaryDue(sched[p].message_count)
              /\ sched[p].written \subseteq store
              /\ Cardinality(OfRole(sched[p].written, ROLE_FACT)) = Len(sched[p].facts)
        /\ sched["p1"].written \cap sched["p2"].written = {}
        /\ Cardinality(OfRole(store, ROLE_FACT)) = Len(sched["p1"].facts) + Len(sched["p2"].facts)
        /\ Cardinality(OfRole(store, ROLE_SUMMARY))
              = Cardinality(OfRole(sched["p1"].written, ROLE_SUMMARY))
                  + Cardinality(OfRole(sched["p2"].written, ROLE_SUMMARY))

\* C23: two calls at message_count 6 have finished; each extracted the same fact and
\* wrote the same summary, and the store holds two such facts and two such summaries.
C23_Witness ==
    /\ \A p \in Procs :
          /\ sched[p].pc = "done" /\ sched[p].message_count = SUMMARY_EVERY
          /\ sched[p].facts = << <<"a", "b", "c", "d">> >>
          /\ OfRole(sched[p].written, ROLE_SUMMARY) # {}
    /\ Cardinality({it \in store : it.role = ROLE_FACT /\ it.content = <<"a", "b", "c", "d">>}) = 2
    /\ Cardinality({it \in store : it.role = ROLE_SUMMARY /\ it.content = <<"a", "b", "c", "d">>}) = 2

----------------------------------------------------------------------------
(* one fact-extraction run and the facts it writes *)

\* what the LLM answers to the fact-extraction prompt. The answer is a function of the
\* dialogue it is given; the dialogues of the model differ in their length, so the
\* answers are listed by it: nothing; one fact; bulleted lines, one of them too short;
\* a line with a hyphen inside it.
FactAnswers ==
    << <<" ">>,
       <<"a", "b", "c", "d">>,
       <<"*", "a", "b", "c", "d", "\n", " ", "a", "b", " ", "\n", "*", "e", "f", "g", "h", " ">>,
       <<"a", "b", "c", "d", "-", "e", "f", "g", "h">> >>

\* the answer to the dialogue of a call
FactAnswerOf(call) == [raised |-> FALSE, text |-> FactAnswers[call.history_len]]

\* One call on a thread of 1..4 messages at a count where facts are due, for either
\* thread and character; the merge answer is blank or a profile.
NextFacts ==
    \/ Tick(1) /\ UNCHANGED <<chunkVars, schedVars, turnVars>>
    \/ \E h \in HistoryUids, c \in ConfUids, n \in 1..Len(FactAnswers) :
          SchedCall("p1", TRUE, c, h, FACT_EXTRACT_EVERY, [raised |-> FALSE, len |-> n])
          /\ UNCHANGED <<chunkVars, turnVars>>
    \/ sched["p1"].pc = "extract"
          /\ SchedExtractReturn("p1", FactAnswerOf(sched["p1"]), 0)
          /\ UNCHANGED <<chunkVars, turnVars>>
    \/ \E out \in DupOutcomes :
          SchedMergeReturn("p1", out, 0) /\ UNCHANGED <<chunkVars, turnVars>>

SpecFacts == InitMemory /\ [][NextFacts]_vars

\* the contents of the items, in the order in which they were added
RECURSIVE ContentsInIdOrder(_)
ContentsInIdOrder(items) ==
    IF items = {} THEN <<>>
    ELSE LET first == CHOOSE it \in items : \A other \in items : it.id <= other.id
         IN  <<first.content>> \o ContentsInIdOrder(items \ {first})

\* the pieces of a response between newlines and bullets, trimmed, those longer than
\* 3 characters, the first 10 of them
LinePieces(facts_text) ==
    LET pieces == SplitOn(facts_text, {"\n", "*"})
        stripped == [i \in 1..Len(pieces) |-> Strip(pieces[i])]
    IN  PySlice(SelectSeq(stripped, LAMBDA f : Len(f) > 3), 0, 10)

\* C25: the fact items a fact-extraction run writes are, in the order of the response,
\* the trimmed pieces of the LLM response between newlines and bullets that are longer
\* than 3 characters, the first 10 of them at most, each one item of role fact for the
\* run's history_uid and conf_uid.
C25_FactsAreTheLines ==
    (sched["p1"].pc \in {"merge", "done"} /\ sched["p1"].extract_attempted) =>
        LET written == OfRole(sched["p1"].written, ROLE_FACT)
        IN  /\ ContentsInIdOrder(written) = LinePieces(FactAnswerOf(sched["p1"]).text)
            /\ Cardinality(written) <= 10
            /\ written \subseteq store
            /\ \A it \in written : /\ it.history_uid = sched["p1"].history_uid
                                    /\ it.conf_uid = sched["p1"].conf_uid

----------------------------------------------------------------------------
(* one fact-extraction run: the re-read facts and the merged profile *)

\* what the LLM answers to the profile-merge prompt, by the length of the dialogue of
\* the call: nothing, or a profile
MergeAnswers == << <<" ">>, <<" ", "p", "\n">> >>

\* the answer to the merge prompt of a call
MergeAnswerOf(call) == [raised |-> FALSE, text |-> MergeAnswers[call.history_len]]

\* Facts and a profile are stored for the threads, the clock advances, and then one
\* run for thread h1 extracts a fact and merges; nothing else writes while it runs.
NextMerge ==
    \/ Tick(1) /\ UNCHANGED <<chunkVars, schedVars, turnVars>>
    \/ \E h \in HistoryUids :
          /\ sched["p1"].pc = "idle"
          /\ AddItem(ROLE_FACT, TextA, h, "c1")
          /\ UNCHANGED <<chunkVars, schedVars, turnVars>>
    \/ /\ sched["p1"].pc = "idle"
       /\ SetUserProfile("h1", "c1", TextB)
       /\ UNCHANGED <<chunkVars, schedVars, turnVars>>
    \/ \E n \in 1..Len(MergeAnswers) :
          SchedCall("p1", TRUE, "c1", "h1", FACT_EXTRACT_EVERY, [raised |-> FALSE, len |-> n])
          /\ UNCHANGED <<chunkVars, turnVars>>
    \/ SchedExtractReturn("p1", [raised |-> FALSE, text |-> FactAnswers[2]], 0)
          /\ UNCHANGED <<chunkVars, turnVars>>
    \/ sched["p1"].pc = "merge"
          /\ SchedMergeReturn("p1", MergeAnswerOf(sched["p1"]), 0)
          /\ UNCHANGED <<chunkVars, turnVars>>

SpecMerge == InitMemory /\ [][NextMerge]_vars

\* the contents of a list of items
ContentsOf(items) == [i \in 1..Len(items) |-> Strip(items[i].content)]

\* a list of items runs from the newest to the oldest
NewestFirst(items) ==
    \A i, j \in 1..Len(items) : i < j => items[i].timestamp >= items[j].timestamp

\* C26: in a run with no other writer, the merge prompt holds the facts of the thread
\* as they are after the run's own facts were written, newest first, at most 30: the
\* facts the run wrote are in it, before every fact that was there earlier. When the
\* merge answer is not blank the run writes one user_profile item with it, and that
\* item is the profile get_user_profile returns from then on.
C26_MergeSeesNewFactsFirst ==
    LET call == sched["p1"]
    IN  /\ call.pc = "merge" =>
              LET all == ScopeItems(ROLE_FACT, call.history_uid, call.conf_uid)
                  new == OfRole(call.written, ROLE_FACT)
              IN  /\ \E o \in Orderings(all) :
                        NewestFirst(o) /\ call.prompt = PySlice(ContentsOf(o), 0, 30)
                  /\ \A it \in new : \E i \in 1..Len(call.prompt) : call.prompt[i] = it.content
                  /\ \A i, j \in 1..Len(call.prompt) :
                        (/\ \E it \in new : it.content = call.prompt[i]
                         /\ \E it \in all \ new : it.content = call.prompt[j]) => i < j
        /\ (call.pc = "done" /\ call.prompt # <<>> /\ ~Blank(MergeAnswerOf(call).text)) =>
              /\ \E it \in store :
                    OfRole(call.written, ROLE_USER_PROFILE) = {it}
                    /\ it.content = Strip(MergeAnswerOf(call).text)
              /\ \A got \in Orderings(ScopeItems(ROLE_USER_PROFILE, call.history_uid,
                                                  call.conf_uid)) :
                    LatestProfile(got) = Strip(MergeAnswerOf(call).text)
        /\ (call.pc = "done" /\ call.prompt # <<>> /\ Blank(MergeAnswerOf(call).text)) =>
              OfRole(call.written, ROLE_USER_PROFILE) = {}

----------------------------------------------------------------------------
(* one summarization run *)

\* the lengths of the threads that are summarized
SummaryLens == {1, 2, 3, 12}

\* what the LLM does with the summarization prompt, by the dialogue of the call: it
\* raises, it answers nothing, it answers blanks, or it answers a summary
SummaryAnswers ==
    << [raised |-> TRUE, text |-> <<>>],
       [raised |-> FALSE, text |-> <<>>],
       [raised |-> FALSE, text |-> <<" ", "\n">>],
       [raised |-> FALSE, text |-> <<" ", "s", "u", "m", "\n">>] >>

\* the answer to the summarization prompt of a call
SummaryAnswerOf(call) == SummaryAnswers[Min(call.history_len, Len(SummaryAnswers))]

\* One call at a count where facts and a summary are due, for either thread and
\* character: fact extraction and merge with a blank or a one-line answer, then the
\* summarization.
NextSummary ==
    \/ Tick(1) /\ UNCHANGED <<chunkVars, schedVars, turnVars>>
    \/ \E h \in HistoryUids, c \in ConfUids, n \in SummaryLens :
          SchedCall("p1", TRUE, c, h, SUMMARY_EVERY, [raised |-> FALSE, len |-> n])
          /\ UNCHANGED <<chunkVars, turnVars>>
    \/ \E out \in DupOutcomes :
          SchedExtractReturn("p1", out, 0) /\ UNCHANGED <<chunkVars, turnVars>>
    \/ \E out \in DupOutcomes :
          SchedMergeReturn("p1", out, 0) /\ UNCHANGED <<chunkVars, turnVars>>
    \/ sched["p1"].pc = "summary"
          /\ SchedSummaryReturn("p1", SummaryAnswerOf(sched["p1"]), 0)
          /\ UNCHANGED <<chunkVars, turnVars>>

SpecSummary == InitMemory /\ [][NextSummary]_vars

\* C27: a summarization run whose LLM answer is not blank writes exactly one item of
\* role summary, the trimmed answer, for the run's history_uid and conf_uid; a run
\* whose answer is blank or whose LLM call fails writes no summary. The dialogue it
\* summarizes is the window of the last min(10, total) messages that the fact
\* extraction of the same call was given.
C27_OneSummaryPerAnswer ==
    LET call == sched["p1"]
    IN  (call.pc = "done" /\ call.summary_attempted) =>
            LET answer == SummaryAnswerOf(call)
                summaries == OfRole(call.written, ROLE_SUMMARY)
            IN  /\ IF ~answer.raised /\ ~Blank(answer.text)
                   THEN \E it \in store :
                           /\ summaries = {it}
                           /\ it.content = Strip(answer.text)
                           /\ it.history_uid = call.history_uid
                           /\ it.conf_uid = call.conf_uid
                   ELSE summaries = {}
                /\ OfRole(store, ROLE_SUMMARY) = summaries
                /\ call.extract_attempted
                /\ call.last_n = Min(10, call.history_len)

\* C27: a call on a thread of 12 messages has summarized its last 10 and stored the
\* trimmed answer as the one summary of the thread.
C27_Witness ==
    /\ sched["p1"].pc = "done" /\ sched["p1"].summary_attempted
    /\ sched["p1"].history_len = 12 /\ sched["p1"].last_n = 10
    /\ \E it \in store :
          /\ OfRole(store, ROLE_SUMMARY) = {it}
          /\ it.content = <<"s", "u", "m">>

----------------------------------------------------------------------------
(* process_single_conversation: one conversation turn after another on a thread *)

\* the thread and the character of the conversation (context.history_uid when it is
\* set, context.character_config.conf_uid)
TurnHistoryUid == "h1"
TurnConfUid == "c1"

\* memory_n_results and memory_cleanup_days of RAGConfig, as configured by default
MemoryNResults == 5
MemoryCleanupDays == 30

\* what rag_engine.query gives (lines 84-101): no engine, an exception, or chunks
RagOutcomes ==
    {[enabled |-> FALSE, raised |-> FALSE, chunks |-> <<>>],
     [enabled |-> TRUE, raised |-> TRUE, chunks |-> <<>>],
     [enabled |-> TRUE, raised |-> FALSE, chunks |-> <<>>],
     [enabled |-> TRUE, raised |-> FALSE, chunks |-> <<"k">>]}

\* where the memory read of lines 105-139 fails, if it does
MemoryFaults == {"none", "get_user_profile", "query"}

\* lines 83-101: rag_context
RagContext(input_text, rag) ==
    IF rag.enabled /\ ~Blank(input_text) /\ ~rag.raised THEN rag.chunks ELSE <<>>

\* lines 127-137: the entry built from the similar items, one line per item
SimilarEntry(similar) ==
    IF similar = <<>> THEN <<>>
    ELSE << [kind |-> "similar",
             lines |-> [i \in 1..Len(similar) |->
                           [role |-> similar[i].role, content |-> similar[i].content]]] >>

\* lines 113-119: the entry built from the profile
ProfileEntry(profile) ==
    IF profile = <<>> THEN <<>> ELSE << [kind |-> "profile", text |-> profile] >>

\* lines 103-139: memory_context, given what get_user_profile and query return and
\* where an exception is raised. The list starts empty, the profile entry is appended
\* before query is called, and the except clause of line 138 only logs.
MemoryContext(profile, similar, fault) ==
    IF fault = "get_user_profile" THEN <<>>
    ELSE IF fault = "query" THEN ProfileEntry(profile)
    ELSE ProfileEntry(profile) \o SimilarEntry(similar)

\* the items DialogueMemory.query returns for the turn (lines 120-126): roles fact and
\* summary of the thread and character, the adapter's ranking in any order
TurnSimilar ==
    IF Count = 0 THEN {<<>>}
    ELSE {PySlice(ranked, 0, Min(MemoryNResults, Count)) :
            ranked \in Orderings(QueryItems(TurnHistoryUid, TurnConfUid,
                                            GivenRoles({ROLE_FACT, ROLE_SUMMARY})))}

\* a turn that saved the raw message as a memory item as well
TurnMemoryItemsRaw(role, content) ==
    IF Blank(content) THEN {} ELSE {NewItem(role, content, TurnHistoryUid, TurnConfUid)}

\* lines 156-166 and 241-251: the memory items a turn adds for a message. store_message
\* writes the chat history only; the turn never calls add_item.
TurnMemoryItems(role, content) == {}

\* lines 56-81: the turn starts, creates the cleanup task and awaits the user's input.
\* The event loop runs its ready tasks in the order they were made ready, so a task
\* created by an earlier turn has started before a turn that was created later.
TurnStart(memory, history_uid, run_bg, skip_history) ==
    /\ turn.pc = "idle"
    /\ turn.n < MaxTurns
    /\ bg_tasks = <<>>
    /\ turn' = [pc |-> "input", n |-> turn.n + 1, memory |-> memory,
                history_uid |-> history_uid, run_bg |-> run_bg,
                skip_history |-> skip_history]
    /\ cleanup_tasks' = IF memory THEN cleanup_tasks + 1 ELSE cleanup_tasks
    /\ UNCHANGED <<storeVars, history, bg_tasks>>

\* the turn after an Exception reached the except clause of lines 284-290
TurnError(t, site) == [pc |-> "error", n |-> t.n, error |-> site]

\* lines 81-172: the input has arrived; knowledge and memory are read, the human
\* message is stored in the chat history and the agent is asked for its reply
TurnInput(input_text, rag, fault, store_ok) ==
    /\ turn.pc = "input"
    /\ LET reads == turn.memory /\ turn.history_uid # "" /\ ~Blank(input_text)
           stores == turn.history_uid # "" /\ ~turn.skip_history
           items == TurnMemoryItems(ROLE_USER, input_text)
       IN  /\ \E got \in Orderings(ScopeItems(ROLE_USER_PROFILE, turn.history_uid,
                                              TurnConfUid)),
                 similar \in TurnSimilar :
                 turn' = IF stores /\ ~store_ok THEN TurnError(turn, "store_message")
                         ELSE [turn EXCEPT !.pc = "agent"] @@
                              [input_text |-> input_text,
                               rag_context |-> RagContext(input_text, rag),
                               rag_failed |-> rag.enabled /\ ~Blank(input_text) /\ rag.raised,
                               memory_context |->
                                   IF reads
                                   THEN MemoryContext(LatestProfile(got), similar, fault)
                                   ELSE <<>>,
                               memory_failed |-> IF reads THEN fault ELSE "none"]
           /\ history' = IF stores /\ store_ok
                         THEN Append(history, [role |-> "human", content |-> input_text])
                         ELSE history
           /\ store' = store \cup items
           /\ nextId' = nextId + Cardinality(items)
           /\ last' = IF reads \/ items # {}
                      THEN [op |-> "process_single_conversation"]
                      ELSE last
    /\ UNCHANGED <<now, ticks, bg_tasks, cleanup_tasks>>

\* lines 175-239: the agent's stream has ended (an Exception in it is caught and leaves
\* the partial reply), speech is awaited and the turn is finalized
TurnReply(full_response) ==
    /\ turn.pc = "agent"
    /\ turn' = [pc |-> "reply", n |-> turn.n, memory |-> turn.memory,
                history_uid |-> turn.history_uid, run_bg |-> turn.run_bg,
                full_response |-> full_response]
    /\ UNCHANGED <<storeVars, history, bg_tasks, cleanup_tasks>>

\* line 241
StoreAiDue(t) == t.history_uid # "" /\ t.full_response # <<>>

\* a dispatch that is not nested in the test of line 241
DispatchDueUnnested(t) == t.memory /\ t.history_uid # "" /\ t.run_bg

\* a dispatch that does not ask whether the agent has run_background_prompt
DispatchDueAnyAgent(t) == StoreAiDue(t) /\ t.memory /\ t.history_uid # ""

\* lines 241, 255-257: the consolidation task is created inside the branch that stores
\* the AI message
DispatchDue(t) == StoreAiDue(t) /\ t.memory /\ t.history_uid # "" /\ t.run_bg

\* lines 241-279: the AI message is stored, the consolidation task is created with
\* asyncio.create_task and, without an await, the reply is returned
TurnFinish(store_ok) ==
    /\ turn.pc = "reply"
    /\ LET items == TurnMemoryItems(ROLE_ASSISTANT, turn.full_response)
       IN  /\ store' = store \cup items
           /\ nextId' = nextId + Cardinality(items)
           /\ last' = IF items # {}
                      THEN [op |-> "process_single_conversation"]
                      ELSE last
    /\ IF StoreAiDue(turn) /\ ~store_ok
       THEN /\ turn' = TurnError(turn, "store_message")
            /\ UNCHANGED <<history, bg_tasks>>
       ELSE /\ turn' = [pc |-> "returned", n |-> turn.n, ret |-> turn.full_response]
            /\ history' = IF StoreAiDue(turn)
                          THEN Append(history, [role |-> "ai", content |-> turn.full_response])
                          ELSE history
            /\ bg_tasks' = IF DispatchDue(turn)
                           THEN Append(bg_tasks, [history_len |-> Len(history) + 1])
                           ELSE bg_tasks
    /\ UNCHANGED <<now, ticks, cleanup_tasks>>

\* a cancellation that takes the consolidation tasks with it
TurnCancelCascading ==
    /\ turn.pc \in {"input", "agent", "reply"}
    /\ turn' = [pc |-> "cancelled", n |-> turn.n]
    /\ bg_tasks' = <<>>
    /\ sched' = [p \in Procs |-> [pc |-> "idle"]]
    /\ UNCHANGED <<storeVars, history, cleanup_tasks>>

\* lines 281-283: the task of the turn is cancelled while the turn is at one of its
\* awaits (the user's input, the agent's stream, speech and finalization);
\* CancelledError is logged and raised again. The last await is before line 241.
TurnCancel ==
    /\ turn.pc \in {"input", "agent", "reply"}
    /\ turn' = [pc |-> "cancelled", n |-> turn.n]
    /\ UNCHANGED <<storeVars, schedVars, history, bg_tasks, cleanup_tasks>>

\* the caller has the reply, or the exception; the next turn may start
TurnEnd ==
    /\ turn.pc \in {"returned", "error", "cancelled"}
    /\ turn' = [pc |-> "idle", n |-> turn.n]
    /\ UNCHANGED <<storeVars, history, bg_tasks, cleanup_tasks>>

\* a task that counts the thread's messages without the reply of its turn
BgStartCountingWithoutReply(p, count_ok, read_ok) ==
    /\ bg_tasks # <<>>
    /\ bg_tasks' = Tail(bg_tasks)
    /\ IF count_ok
       THEN SchedCall(p, TRUE, TurnConfUid, TurnHistoryUid, Len(history) - 1,
                      [raised |-> ~read_ok, len |-> IF read_ok THEN Len(history) ELSE 0])
       ELSE sched[p].pc = "idle" /\ UNCHANGED <<storeVars, sched>>
    /\ UNCHANGED <<turn, history, cleanup_tasks>>

\* lines 259-277: a created _bg_memory_task starts: it counts the thread's messages
\* and calls process_memory_background; an Exception of get_history ends the task
BgStart(p, count_ok, read_ok) ==
    /\ bg_tasks # <<>>
    /\ bg_tasks' = Tail(bg_tasks)
    /\ IF count_ok
       THEN SchedCall(p, TRUE, TurnConfUid, TurnHistoryUid, Len(history),
                      [raised |-> ~read_ok, len |-> IF read_ok THEN Len(history) ELSE 0])
       ELSE sched[p].pc = "idle" /\ UNCHANGED <<storeVars, sched>>
    /\ UNCHANGED <<turn, history, cleanup_tasks>>

\* a cleanup called with exclude_roles={"fact"}
CleanupRunKeepingFacts(days, ok) ==
    /\ cleanup_tasks > 0
    /\ cleanup_tasks' = cleanup_tasks - 1
    /\ IF ok THEN DeleteOlderThanDays(days, "", GivenRoles({ROLE_FACT}))
             ELSE UNCHANGED storeVars
    /\ UNCHANGED <<turn, history, bg_tasks>>

\* a cleanup of the turn's own thread only
CleanupRunOfThread(days, ok) ==
    /\ cleanup_tasks > 0
    /\ cleanup_tasks' = cleanup_tasks - 1
    /\ IF ok THEN DeleteOlderThanDays(days, TurnHistoryUid, NoRoles)
             ELSE UNCHANGED storeVars
    /\ UNCHANGED <<turn, history, bg_tasks>>

\* a cleanup whose failure is raised in the turn that created it
CleanupRunAborting(days, ok) ==
    /\ cleanup_tasks > 0
    /\ cleanup_tasks' = cleanup_tasks - 1
    /\ IF ok
       THEN DeleteOlderThanDays(days, "", NoRoles) /\ UNCHANGED turn
       ELSE /\ turn' = IF turn.pc \in {"input", "agent", "reply"}
                       THEN TurnError(turn, "delete_older_than_days")
                       ELSE turn
            /\ UNCHANGED storeVars
    /\ UNCHANGED <<history, bg_tasks>>

\* lines 66-76: a created cleanup task runs delete_older_than_days(days=days) in a
\* thread. Nothing awaits the task: when the store raises, the exception stays in the
\* task and the deletion has not happened.
CleanupRun(days, ok) ==
    /\ cleanup_tasks > 0
    /\ cleanup_tasks' = cleanup_tasks - 1
    /\ IF ok THEN DeleteOlderThanDays(days, "", NoRoles) ELSE UNCHANGED storeVars
    /\ UNCHANGED <<turn, history, bg_tasks>>

\* lines 156-166 of a turn that another connection runs on the same thread: its
\* store_message appends to the thread's history. Such a turn was made ready before
\* the task of this connection's turn was created, so it may run before that task.
\* The model follows one such turn.
OtherTurnStores(input_text) ==
    /\ \A i \in 1..Len(history) : history[i].content # input_text
    /\ history' = Append(history, [role |-> "human", content |-> input_text])
    /\ UNCHANGED <<storeVars, turn, bg_tasks, cleanup_tasks>>

\* the text the user of the other connection sends
OtherText == <<"o">>

\* texts of the user and of the agent
InputTexts == {<<" ">>, TextA}
Replies == {<<>>, <<"r">>}

\* the answer of the LLM to the consolidation prompts of these turns (what the
\* scheduler does with every other answer and with a failure is SpecSched's subject)
TurnLLMOutcomes == {[raised |-> FALSE, text |-> <<"a", "b", "c", "d">>]}

\* a thread that already has four messages
PriorThread ==
    << [role |-> "human", content |-> TextA], [role |-> "ai", content |-> <<"r">>],
       [role |-> "human", content |-> TextA], [role |-> "ai", content |-> <<"r">>] >>

\* what the context of a turn holds: dialogue memory on or off, a thread or none, an
\* agent with or without run_background_prompt, and the skip_history flag of the input
TurnContexts ==
    {[memory |-> TRUE, history_uid |-> TurnHistoryUid, run_bg |-> TRUE, skip_history |-> FALSE],
     [memory |-> TRUE, history_uid |-> TurnHistoryUid, run_bg |-> TRUE, skip_history |-> TRUE],
     [memory |-> TRUE, history_uid |-> TurnHistoryUid, run_bg |-> FALSE, skip_history |-> FALSE],
     [memory |-> FALSE, history_uid |-> TurnHistoryUid, run_bg |-> TRUE, skip_history |-> FALSE],
     [memory |-> TRUE, history_uid |-> "", run_bg |-> TRUE, skip_history |-> FALSE]}

InitTurn ==
    /\ InitStore /\ ChunkIdle /\ SchedIdle
    /\ turn = [pc |-> "idle", n |-> 0]
    /\ history \in {<<>>, PriorThread}
    /\ bg_tasks = <<>>
    /\ cleanup_tasks = 0

\* The turns of the model follow one another within a second, so the clock stands.
NextTurn ==
    \/ \E ctx \in TurnContexts :
          TurnStart(ctx.memory, ctx.history_uid, ctx.run_bg, ctx.skip_history)
          /\ UNCHANGED <<chunkVars, schedVars>>
    \/ \E input_text \in InputTexts, rag \in RagOutcomes, fault \in MemoryFaults,
          store_ok \in BOOLEAN :
          TurnInput(input_text, rag, fault, store_ok) /\ UNCHANGED <<chunkVars, schedVars>>
    \/ \E full_response \in Replies :
          TurnReply(full_response) /\ UNCHANGED <<chunkVars, schedVars>>
    \/ \E store_ok \in BOOLEAN : TurnFinish(store_ok) /\ UNCHANGED <<chunkVars, schedVars>>
    \/ TurnEnd /\ UNCHANGED <<chunkVars, schedVars>>
    \/ TurnCancel /\ UNCHANGED chunkVars
    \/ \E count_ok \in BOOLEAN, read_ok \in BOOLEAN :
          BgStart("p1", count_ok, read_ok) /\ UNCHANGED chunkVars
    \/ \E ok \in BOOLEAN :
          CleanupRun(MemoryCleanupDays, ok) /\ UNCHANGED <<chunkVars, schedVars>>
    \/ \E out \in TurnLLMOutcomes :
          SchedExtractReturn("p1", out, 0) /\ UNCHANGED <<chunkVars, turnVars>>
    \/ \E out \in TurnLLMOutcomes :
          SchedMergeReturn("p1", out, 0) /\ UNCHANGED <<chunkVars, turnVars>>
    \/ \E out \in TurnLLMOutcomes :
          SchedSummaryReturn("p1", out, 0) /\ UNCHANGED <<chunkVars, turnVars>>
    \/ SchedReturn("p1") /\ UNCHANGED <<chunkVars, turnVars>>

SpecTurn == InitTurn /\ [][NextTurn]_vars

\* C13: the consolidation task is created only in the step that ends the turn, after
\* the reply is complete and its AI message is appended to the chat history; in that
\* same step the turn returns the reply, while the task has not started: the return
\* waits for no LLM call and no store write of the consolidation.
C13_DispatchAfterReplyStored ==
    [][Len(bg_tasks') > Len(bg_tasks) =>
          /\ turn.pc = "reply" /\ turn.full_response # <<>>
          /\ history' = Append(history, [role |-> "ai", content |-> turn.full_response])
          /\ turn'.pc = "returned" /\ turn'.ret = turn.full_response
          /\ sched' = sched /\ store' = store]_vars

\* C13: a turn has returned its reply with its consolidation task created and not
\* started, while the consolidation of the turn before still awaits its LLM call.
C13_Witness ==
    /\ turn.pc = "returned" /\ turn.ret = <<"r">>
    /\ bg_tasks # <<>>
    /\ history[Len(history)] = [role |-> "ai", content |-> <<"r">>]
    /\ sched["p1"].pc = "extract"

\* The turns of one connection with their consolidation tasks, and a turn of another
\* connection on the same thread. The store and the history are written without
\* failures here, and a scheduler call is followed to its first await.
NextThread ==
    \/ \E ctx \in TurnContexts :
          TurnStart(ctx.memory, ctx.history_uid, ctx.run_bg, ctx.skip_history)
          /\ UNCHANGED <<chunkVars, schedVars>>
    \/ \E rag \in RagOutcomes :
          TurnInput(TextA, rag, "none", TRUE) /\ UNCHANGED <<chunkVars, schedVars>>
    \/ \E full_response \in Replies :
          TurnReply(full_response) /\ UNCHANGED <<chunkVars, schedVars>>
    \/ TurnFinish(TRUE) /\ UNCHANGED <<chunkVars, schedVars>>
    \/ TurnEnd /\ UNCHANGED <<chunkVars, schedVars>>
    \/ \E count_ok \in BOOLEAN : BgStart("p1", count_ok, TRUE) /\ UNCHANGED chunkVars
    \/ OtherTurnStores(OtherText) /\ UNCHANGED <<chunkVars, schedVars>>
    \/ SchedReturn("p1") /\ UNCHANGED <<chunkVars, turnVars>>

SpecThread == InitTurn /\ [][NextThread]_vars

\* C22: every turn that completes with a non-empty reply, a thread and the memory
\* enabled creates one consolidation task, and that task calls the scheduler, with
\* message_count equal to the length the thread's history had right after the turn's
\* reply was stored, whatever other turns store on the thread before the task runs.
C22_OneCallWithCountAtReply ==
    /\ [][(/\ turn.pc = "reply" /\ turn'.pc = "returned"
           /\ turn.full_response # <<>> /\ turn.history_uid # "" /\ turn.memory)
              => bg_tasks' = Append(bg_tasks, [history_len |-> Len(history')])]_vars
    /\ [][(bg_tasks # <<>> /\ bg_tasks' = Tail(bg_tasks))
              => /\ sched["p1"].pc = "idle"
                 /\ sched'["p1"].pc # "idle"
                 /\ sched'["p1"].message_count = Head(bg_tasks).history_len]_vars

\* C15: after any turns and consolidations the memory store holds only items of role
\* fact, summary or user_profile, and an item is added only by a step of
\* process_memory_background: no turn adds the user's input or the reply.
C15_OnlyConsolidationWrites ==
    [][/\ \A it \in store' : it.role \in {ROLE_FACT, ROLE_SUMMARY, ROLE_USER_PROFILE}
       /\ (store' \ store # {} => last'.op = "process_memory_background")]_vars

\* C15: two turns have stored their messages in the chat history and consolidation
\* has written a fact, a profile and a summary.
C15_Witness ==
    /\ turn.n = 2 /\ turn.pc = "returned"
    /\ \E i, j \in 1..Len(history) : history[i].role = "human" /\ history[j].role = "ai"
    /\ \E f, g, h \in store :
          f.role = ROLE_FACT /\ g.role = ROLE_USER_PROFILE /\ h.role = ROLE_SUMMARY

\* C17: a failed knowledge query leaves no knowledge context, a failure anywhere in the
\* memory read (profile fetch or similarity query) leaves no memory context at all, and
\* in both cases the turn goes on to ask the agent for its reply: the only error that
\* ends a turn here is a failed write of the chat history.
C17_FailedReadsLeaveNoContext ==
    /\ turn.pc = "agent" =>
          /\ turn.rag_failed => turn.rag_context = <<>>
          /\ turn.memory_failed # "none" => turn.memory_context = <<>>
    /\ turn.pc = "error" => turn.error = "store_message"

\* C37: a step creates a consolidation task only when it ends a turn that has a
\* non-empty reply, a thread, the dialogue memory and an agent with a callable
\* run_background_prompt, and that turn then returns its reply; the step in which a
\* turn is cancelled or fails creates none, and so does every step of a turn before
\* its reply is complete.
C37_NoDispatchWithoutReply ==
    /\ [][Len(bg_tasks') > Len(bg_tasks) =>
             /\ turn.pc = "reply" /\ turn'.pc = "returned"
             /\ turn.full_response # <<>> /\ turn.history_uid # ""
             /\ turn.memory /\ turn.run_bg
             /\ Len(bg_tasks') = Len(bg_tasks) + 1]_vars
    /\ [][(turn'.pc \in {"cancelled", "error"} \/ turn.pc \in {"idle", "input", "agent"})
             => Len(bg_tasks') <= Len(bg_tasks)]_vars

\* C37: a turn with the memory enabled has stored the human message, got an empty
\* reply and returned it; no task was created and no consolidation runs.
C37_Witness ==
    /\ turn.pc = "returned" /\ turn.ret = <<>>
    /\ history # <<>> /\ history[Len(history)].role = "human"
    /\ bg_tasks = <<>> /\ sched["p1"].pc = "idle"
    /\ cleanup_tasks > 0

\* the next step of a turn that is at one of its awaits
TurnProceeds ==
    /\ \/ \E input_text \in InputTexts, rag \in RagOutcomes, fault \in MemoryFaults,
             store_ok \in BOOLEAN : TurnInput(input_text, rag, fault, store_ok)
       \/ \E full_response \in Replies : TurnReply(full_response)
       \/ \E store_ok \in BOOLEAN : TurnFinish(store_ok)
    /\ UNCHANGED <<chunkVars, schedVars>>

\* C29: with the memory enabled, the step that starts a turn creates one cleanup task
\* and runs none of it (the store is as before); a step of a cleanup task, whether the
\* deletion succeeds or raises, leaves the turn and the chat history as they are; and
\* a turn at any of its awaits can take its next step however many cleanup tasks
\* have not run yet: the only error that ends a turn is a failed chat-history write.
C29_SweepNeverHoldsTheTurn ==
    /\ [][(turn.pc = "idle" /\ turn'.pc = "input")
              => /\ cleanup_tasks' = cleanup_tasks + (IF turn'.memory THEN 1 ELSE 0)
                 /\ store' = store]_vars
    /\ [][cleanup_tasks' < cleanup_tasks => (turn' = turn /\ history' = history)]_vars
    /\ [](turn.pc \in {"input", "agent", "reply"} => ENABLED TurnProceeds)
    /\ [](turn.pc = "error" => turn.error = "store_message")

\* C29: the second turn has returned its reply while the cleanup tasks of both turns
\* have not run.
C29_Witness ==
    /\ turn.pc = "returned" /\ turn.ret = <<"r">> /\ turn.n = 2
    /\ cleanup_tasks = 2

\* what an awaited LLM call of a consolidation ends with: an Exception, a blank
\* answer, or a text
ConsolidationLLMOutcomes ==
    << [raised |-> TRUE, text |-> <<>>],
       [raised |-> FALSE, text |-> <<" ">>],
       [raised |-> FALSE, text |-> <<"a", "b", "c", "d">>] >>

\* the next step of the consolidation that process p runs
ConsolidationStep(p) ==
    /\ \E n \in 1..Len(ConsolidationLLMOutcomes) :
          LET out == ConsolidationLLMOutcomes[n]
          IN  \/ SchedExtractReturn(p, out, 0)
              \/ SchedMergeReturn(p, out, 0)
              \/ SchedSummaryReturn(p, out, 0)
              \/ SchedReturn(p)
    /\ UNCHANGED <<chunkVars, turnVars>>

\* Turns that may be cancelled at their awaits, and their consolidation tasks. The
\* store and the history are written without failures here.
NextCancel ==
    \/ \E ctx \in TurnContexts :
          TurnStart(ctx.memory, ctx.history_uid, ctx.run_bg, ctx.skip_history)
          /\ UNCHANGED <<chunkVars, schedVars>>
    \/ \E rag \in RagOutcomes :
          TurnInput(TextA, rag, "none", TRUE) /\ UNCHANGED <<chunkVars, schedVars>>
    \/ \E full_response \in Replies :
          TurnReply(full_response) /\ UNCHANGED <<chunkVars, schedVars>>
    \/ TurnFinish(TRUE) /\ UNCHANGED <<chunkVars, schedVars>>
    \/ TurnEnd /\ UNCHANGED <<chunkVars, schedVars>>
    \/ TurnCancel /\ UNCHANGED chunkVars
    \/ BgStart("p1", TRUE, TRUE) /\ UNCHANGED chunkVars
    \/ ConsolidationStep("p1")

\* The event loop runs every task that is ready, and an awaited LLM call returns or
\* raises: a consolidation that can take a step takes it.
SpecCancel == InitTurn /\ [][NextCancel]_vars /\ WF_vars(ConsolidationStep("p1"))

----------------------------------------------------------------------------
(* Characters: items written for several characters, read for one *)

\* the conf_uid values items are written with: two characters, and none (the default "")
WrittenConfUids == ConfUids \cup {""}

NextScope ==
    \/ Tick(1) /\ UNCHANGED <<chunkVars, schedVars, turnVars>>
    \/ \E role \in {ROLE_FACT, ROLE_USER_PROFILE}, c \in WrittenConfUids :
          AddItem(role, TextA, "h1", c) /\ UNCHANGED <<chunkVars, schedVars, turnVars>>
    \/ \E c \in WrittenConfUids :
          GetUserProfile("h1", c) /\ UNCHANGED <<chunkVars, schedVars, turnVars>>
    \/ \E c \in WrittenConfUids :
          GetAllFacts("h1", c, 50) /\ UNCHANGED <<chunkVars, schedVars, turnVars>>
    \/ \E c \in WrittenConfUids :
          Query(MemoryNResults, "h1", c, GivenRoles({ROLE_FACT, ROLE_SUMMARY}))
          /\ UNCHANGED <<chunkVars, schedVars, turnVars>>
    \/ \E c \in WrittenConfUids, role \in {"", ROLE_FACT} :
          ListItems(c, "", role, 200) /\ UNCHANGED <<chunkVars, schedVars, turnVars>>

SpecScope == InitMemory /\ [][NextScope]_vars

\* the stored items the last read returned
ReturnedItems ==
    IF last.op \in {"get_user_profile", "get_all_facts"}
    THEN {last.items[i] : i \in 1..Len(last.items)}
    ELSE IF last.op = "query" THEN {last.ret[i] : i \in 1..Len(last.ret)}
    ELSE IF last.op = "list_items"
    THEN {it \in store : \E i \in 1..Len(last.ret) : last.ret[i].id = it.id}
    ELSE {}

\* the read operations
ReadOps == {"get_user_profile", "get_all_facts", "query", "list_items"}

\* C14: after any writes for any characters, a read made with the conf_uid of a
\* character A (get_user_profile, get_all_facts, query, list_items) returns no item
\* that was written with another conf_uid.
C14_NoSharingAcrossCharacters ==
    (last.op \in ReadOps /\ last.conf_uid \in ConfUids) =>
        \A it \in ReturnedItems : it.conf_uid = last.conf_uid

\* C14: profiles of both characters are stored in one thread and get_user_profile
\* for c1 has returned the one of c1.
C14_Witness ==
    /\ last.op = "get_user_profile" /\ last.conf_uid = "c1"
    /\ ReturnedItems # {}
    /\ \E it \in store : it.conf_uid = "c2" /\ it.role = ROLE_USER_PROFILE

----------------------------------------------------------------------------
(* Writes and deletions: what stays in the store and what the calls return *)

\* a role that is none of the five
OtherRole == "note"

\* lists of ids for delete_by_ids: none, the empty id, ids that may be stored (1, 2),
\* an id twice, and an id that never is (9)
IdLists == {<<>>, <<EmptyId>>, <<1>>, <<2, EmptyId>>, <<1, 1>>, <<9>>}

NextStore ==
    \/ Tick(1) /\ UNCHANGED <<chunkVars, schedVars, turnVars>>
    \/ \E role \in {ROLE_FACT, OtherRole}, content \in {TextA, <<" ">>} :
          AddItem(role, content, "h1", "c1") /\ UNCHANGED <<chunkVars, schedVars, turnVars>>
    \/ \E c \in ConfUids, content \in {TextB, <<" ">>} :
          SetUserProfile("h1", c, content) /\ UNCHANGED <<chunkVars, schedVars, turnVars>>
    \/ AddToUserProfile("h1", "c1", TextA) /\ UNCHANGED <<chunkVars, schedVars, turnVars>>
    \/ \E c \in WrittenConfUids :
          GetUserProfile("h1", c) /\ UNCHANGED <<chunkVars, schedVars, turnVars>>
    \/ \E ids \in IdLists : DeleteByIds(ids) /\ UNCHANGED <<chunkVars, schedVars, turnVars>>
    \/ \E c \in ConfUids, h \in {"", "h1"} :
          DeleteAll(c, h) /\ UNCHANGED <<chunkVars, schedVars, turnVars>>
    \/ \E ex \in {NoRoles, GivenRoles({ROLE_SUMMARY})} :
          DeleteOlderThanDays(0, "", ex) /\ UNCHANGED <<chunkVars, schedVars, turnVars>>

SpecStore == InitMemory /\ [][NextStore]_vars

\* C16: every stored item has one of the five roles: add_item with any other role is
\* refused and stores nothing.
C16_UnknownRoleRejected ==
    /\ \A it \in store : it.role \in Roles
    /\ (last.op = "add_item" /\ last.role \notin Roles) => ~last.changed

\* C18: after any writes and deletions, get_user_profile(history_uid, conf_uid) returns
\* the content of a stored user_profile item of that scope whose timestamp is the
\* maximum among them, and the empty string exactly when the scope has none.
C18_ProfileOfMaxTimestamp ==
    last.op = "get_user_profile" =>
        LET scope == ScopeItems(ROLE_USER_PROFILE, last.history_uid, last.conf_uid)
        IN  /\ last.ret = <<>> <=> scope = {}
            /\ scope # {} =>
                  \E it \in scope :
                      /\ it.content = last.ret
                      /\ \A other \in scope : other.timestamp <= it.timestamp

\* C18: two profiles of different seconds and contents are stored in the scope and
\* get_user_profile has returned the newer one.
C18_Witness ==
    /\ last.op = "get_user_profile"
    /\ \E a, b \in ScopeItems(ROLE_USER_PROFILE, last.history_uid, last.conf_uid) :
          a.timestamp < b.timestamp /\ a.content # b.content /\ last.ret = b.content

\* the deletion operations
DeleteOps == {"delete_by_ids", "delete_older_than_days", "delete_all"}

C20_DeleteCountsRemoved ==
    [][(last'.op \in DeleteOps /\ ticks' = ticks) =>
          last'.ret = Cardinality(store \ store')]_vars

----------------------------------------------------------------------------
(* Administrative reset: delete_all on items of several threads and characters *)

\* items of two roles are written for both threads and for every character, and
\* delete_all is called for a character, with a thread or without one (None, "")
NextReset ==
    \/ \E role \in {ROLE_FACT, ROLE_USER}, h \in HistoryUids, c \in WrittenConfUids :
          AddItem(role, TextA, h, c) /\ UNCHANGED <<chunkVars, schedVars, turnVars>>
    \/ \E c \in WrittenConfUids, h \in HistoryUids \cup {""} :
          DeleteAll(c, h) /\ UNCHANGED <<chunkVars, schedVars, turnVars>>

SpecReset == InitMemory /\ [][NextReset]_vars

\* C32: a delete_all(conf_uid, history_uid) step removes an item exactly when its
\* conf_uid is the given one and, when a history_uid is given, its history_uid is the
\* given one, whatever its role; every other item stays as it was and none is added.
C32_DeleteAllExactScope ==
    [][last'.op = "delete_all" =>
          /\ store' \subseteq store
          /\ \A it \in store :
                it \notin store' <=>
                    /\ it.conf_uid = last'.conf_uid
                    /\ (last'.history_uid # "" => it.history_uid = last'.history_uid)]_vars

\* C32: delete_all for a character and a thread has removed one item and left the
\* item of the same character in the other thread.
C32_Witness ==
    /\ last.op = "delete_all" /\ last.conf_uid = "c1" /\ last.history_uid = "h1"
    /\ last.ret = 1
    /\ \E it \in store : it.conf_uid = "c1" /\ it.history_uid = "h2"

----------------------------------------------------------------------------
(* The cadence in a thread whose turns all store a human message and a reply *)

\* a thread of k such turns
PairsThread(k) ==
    [i \in 1..(2 * k) |-> IF i % 2 = 1 THEN [role |-> "human", content |-> TextA]
                                        ELSE [role |-> "ai", content |-> <<"r">>]]

\* the threads the turns continue: a new one, one of two turns and one of five
CadenceThreads == {PairsThread(0), PairsThread(2), PairsThread(5)}

InitCadence ==
    /\ InitStore /\ ChunkIdle /\ SchedIdle
    /\ turn = [pc |-> "idle", n |-> 0]
    /\ history \in CadenceThreads
    /\ bg_tasks = <<>>
    /\ cleanup_tasks = 0

\* Turns of one connection, one after the other, with the memory enabled, a thread, an
\* agent with run_background_prompt and no skip_history; every write of the chat
\* history succeeds and every reply is non-empty.
NextCadence ==
    \/ TurnStart(TRUE, TurnHistoryUid, TRUE, FALSE) /\ UNCHANGED <<chunkVars, schedVars>>
    \/ \E input_text \in InputTexts, rag \in RagOutcomes :
          TurnInput(input_text, rag, "none", TRUE) /\ UNCHANGED <<chunkVars, schedVars>>
    \/ TurnReply(<<"r">>) /\ UNCHANGED <<chunkVars, schedVars>>
    \/ TurnFinish(TRUE) /\ UNCHANGED <<chunkVars, schedVars>>
    \/ TurnEnd /\ UNCHANGED <<chunkVars, schedVars>>
    \/ BgStart("p1", TRUE, TRUE) /\ UNCHANGED chunkVars
    \/ ConsolidationStep("p1")

SpecCadence == InitCadence /\ [][NextCadence]_vars

\* C33: in such a thread every scheduler call sees an even message_count, never 3, 9
\* or 15; a call asks for facts only at a count that is a multiple of 6, where it asks
\* for a summary as well; and a fact is stored only by a call at such a count.
C33_FactsOnlyWithSummary ==
    /\ [](sched["p1"].pc # "idle" =>
            /\ sched["p1"].message_count % 2 = 0
            /\ sched["p1"].message_count \notin {3, 9, 15}
            /\ sched["p1"].pc \in {"extract", "merge"} =>
                   sched["p1"].message_count % 6 = 0
            /\ sched["p1"].pc = "done" =>
                   /\ sched["p1"].extract_attempted = sched["p1"].summary_attempted
                   /\ sched["p1"].extract_attempted <=>
                          (sched["p1"].message_count % 6 = 0
                           /\ sched["p1"].message_count > 0))
    /\ [][(\E it \in store' \ store : it.role = ROLE_FACT) =>
             sched["p1"].message_count % 6 = 0]_vars

\* C33: the fifth turn of a thread was followed by the sixth, and the call at its
\* count of 12 has asked for facts and for a summary and stored both.
C33_Witness ==
    /\ sched["p1"].pc = "done" /\ sched["p1"].message_count = 12
    /\ sched["p1"].extract_attempted /\ sched["p1"].summary_attempted
    /\ \E f, g \in store : f.role = ROLE_FACT /\ g.role = ROLE_SUMMARY

----------------------------------------------------------------------------
(* The sweep of a turn on a store with items of several threads and characters *)

\* the thread and character of the turns, and another thread of another character
SweepScopes == {<<TurnHistoryUid, TurnConfUid>>, <<"h2", "c2">>}

InitSweep ==
    /\ InitStore /\ ChunkIdle /\ SchedIdle
    /\ turn = [pc |-> "idle", n |-> 0]
    /\ history = <<>>
    /\ bg_tasks = <<>>
    /\ cleanup_tasks = 0

\* Summaries and facts are stored for both scopes while the clock moves by the
\* retention horizon; turns of thread h1 and character c1 start, each creating its
\* cleanup task, and are cancelled while they wait for the user's input.
NextSweep ==
    \/ Tick(MemoryCleanupDays * SecondsPerDay) /\ UNCHANGED <<chunkVars, schedVars, turnVars>>
    \/ \E role \in {ROLE_SUMMARY, ROLE_FACT}, sc \in SweepScopes :
          AddItem(role, TextA, sc[1], sc[2]) /\ UNCHANGED <<chunkVars, schedVars, turnVars>>
    \/ TurnStart(TRUE, TurnHistoryUid, TRUE, FALSE) /\ UNCHANGED <<chunkVars, schedVars>>
    \/ TurnCancel /\ UNCHANGED chunkVars
    \/ TurnEnd /\ UNCHANGED <<chunkVars, schedVars>>
    \/ \E ok \in BOOLEAN :
          CleanupRun(MemoryCleanupDays, ok) /\ UNCHANGED <<chunkVars, schedVars>>

SpecSweep == InitSweep /\ [][NextSweep]_vars

\* C35: a step of a turn's cleanup task removes only items of role user, assistant or
\* summary that are older than now minus the configured days, and adds none; and when
\* the deletion has happened, no such item of any thread or character is left.
C35_SweepIsGlobal ==
    [][cleanup_tasks' < cleanup_tasks =>
          /\ store' \subseteq store
          /\ \A it \in store \ store' :
                /\ it.timestamp < now - MemoryCleanupDays * SecondsPerDay
                /\ it.role \in {ROLE_USER, ROLE_ASSISTANT, ROLE_SUMMARY}
          /\ (last' # last \/ store' # store) =>
                /\ last'.op = "delete_older_than_days" /\ last'.history_uid = ""
                /\ \A it \in store' :
                      \/ it.timestamp >= now - MemoryCleanupDays * SecondsPerDay
                      \/ it.role \in PERSISTENT_ROLES]_vars

\* C35: the sweep of a turn of thread h1 has removed an item and has left only a
\* summary of the other thread and character that is as old as the cutoff.
C35_Witness ==
    /\ turn.pc = "input" /\ turn.history_uid = "h1" /\ cleanup_tasks = 0
    /\ last.op = "delete_older_than_days" /\ last.ret = 1
    /\ \E it \in store :
          /\ store = {it} /\ it.role = ROLE_SUMMARY /\ it.timestamp = last.cutoff
          /\ it.history_uid = "h2" /\ it.conf_uid = "c2"

----------------------------------------------------------------------------
(* The pipeline over time: turns, their sweeps and their consolidations *)

\* Turns of one connection with the memory enabled read the memory, store their
\* messages and create their tasks; the consolidations run with the LLM raising,
\* answering blank or answering a text; the sweeps run, succeeding or failing; and
\* the clock passes the retention horizon.
NextPipeline ==
    \/ Tick(MemoryCleanupDays * SecondsPerDay + 1)
          /\ UNCHANGED <<chunkVars, schedVars, turnVars>>
    \/ TurnStart(TRUE, TurnHistoryUid, TRUE, FALSE) /\ UNCHANGED <<chunkVars, schedVars>>
    \/ \E rag \in RagOutcomes, fault \in MemoryFaults :
          TurnInput(TextA, rag, fault, TRUE) /\ UNCHANGED <<chunkVars, schedVars>>
    \/ TurnReply(<<"r">>) /\ UNCHANGED <<chunkVars, schedVars>>
    \/ TurnFinish(TRUE) /\ UNCHANGED <<chunkVars, schedVars>>
    \/ TurnEnd /\ UNCHANGED <<chunkVars, schedVars>>
    \/ BgStart("p1", TRUE, TRUE) /\ UNCHANGED chunkVars
    \/ ConsolidationStep("p1")
    \/ \E ok \in BOOLEAN :
          CleanupRun(MemoryCleanupDays, ok) /\ UNCHANGED <<chunkVars, schedVars>>

SpecPipeline == InitCadence /\ [][NextPipeline]_vars

\* the user_profile items of a collection
ProfilesOf(S) == {it \in S : it.role = ROLE_USER_PROFILE}

\* C38: the user_profile items of the store change only in the step of a scheduler
\* call that receives the merge answer: the call is at a count where extraction is
\* due, it has passed a non-blank extraction answer and re-read at least one fact of
\* the thread, and the step adds one profile of the thread with the non-blank trimmed
\* answer and removes none. No other step (the summarization, the turn's reads, the
\* sweep) adds or removes a user_profile item.
C38_ProfileChangesOnlyInMerge ==
    [][ProfilesOf(store') # ProfilesOf(store) =>
          /\ sched["p1"].pc = "merge" /\ sched'["p1"].pc # "merge"
          /\ sched["p1"].extract_attempted
          /\ sched["p1"].message_count >= 3 /\ sched["p1"].message_count % 3 = 0
          /\ sched["p1"].prompt # <<>>
          /\ \E f \in store : /\ f.role = ROLE_FACT
                               /\ f.history_uid = sched["p1"].history_uid
                               /\ f.conf_uid = sched["p1"].conf_uid
          /\ \E it \in store' \ store :
                /\ ProfilesOf(store') = ProfilesOf(store) \cup {it}
                /\ it.history_uid = sched["p1"].history_uid
                /\ it.conf_uid = sched["p1"].conf_uid
                /\ it.content # <<>> /\ Strip(it.content) = it.content]_vars

\* C38: a consolidation wrote a profile and a summary; after the retention horizon a
\* later turn has read the memory and its sweep has removed the summary and left the
\* profile.
C38_Witness ==
    /\ turn.n = 2 /\ turn.pc = "agent" /\ turn.memory_context # <<>>
    /\ last.op = "delete_older_than_days" /\ last.ret = 1
    /\ \E it \in ProfilesOf(store) : it.timestamp < last.cutoff

====
